---------------------------- MODULE Spec2Model ----------------------------
(***************************************************************************)
(* AlgART native array primitives (net_algart_array_ArraysNative).         *)
(*                                                                         *)
(* The model has two parts:                                                *)
(*   - the capability prober _cpuInfo() of ArraysFunctions.h, as a step    *)
(*     machine over its static variables (cpuInfoCalculated, cpuInfoLast,  *)
(*     maxArgForCpuId) and the locals of each call;                        *)
(*   - the array kernels of ArraysNative.cpp (copyBytes, fill, min, max)   *)
(*     over a byte-addressed memory.                                       *)
(*                                                                         *)
(* A 64-bit descriptor and a 32-bit feature register are modelled as the   *)
(* set of the positions of their 1 bits: OR is union, AND is intersection, *)
(* a shift moves the positions.                                            *)
(***************************************************************************)
EXTENDS Integers, Sequences, FiniteSets, TLC

VARIABLES
    cpuInfoCalculated,  \* static bool cpuInfoCalculated
    cpuInfoLast,        \* static __int64 cpuInfoLast (set of 1-bit positions)
    maxArgForCpuId,     \* static __int32 maxArgForCpuId
    hw,                 \* the processor: what each cpuid query answers
    threads,            \* the threads of the process
    pc,                 \* per thread: position inside _cpuInfo(), or "idle"
    loc,                \* per thread: the locals of the running _cpuInfo() call
    rets,               \* per thread: the values its calls of _cpuInfo() returned
    nQueries,           \* how many times the cpuid sequence was started
    trapped,            \* whether a cpuid query has trapped
    mem,                \* byte-addressed memory holding the caller's arrays
    pre,                \* the memory as it was when the array call started
    req,                \* the array call in progress or last completed
    variant,            \* the kernel variant the last array call ran
    phase,              \* "none" | "called" | "returned"
    nOps,               \* number of array calls made
    jni,                \* the JNI calls of the last array call, the exception it left
    part                \* the partition of the range the last array call computed

vars == <<cpuInfoCalculated, cpuInfoLast, maxArgForCpuId, hw, threads, pc, loc,
          rets, nQueries, trapped, mem, pre, req, variant, phase, nOps, jni, part>>

probeVars == <<cpuInfoCalculated, cpuInfoLast, maxArgForCpuId, hw, threads, pc,
               loc, rets, nQueries, trapped>>

arrayVars == <<mem, pre, req, variant, phase, nOps, jni, part>>

---------------------------------------------------------------------------
(* Bounds of the model *)

\* probe calls one thread makes
MaxCalls == 3
\* array calls in one run of the mixed specification
MaxOps == 2
\* threads of the concurrent specification
NThreads == 2

---------------------------------------------------------------------------
(* ArraysMacro.h: flag masks and field positions *)

CPU_FPU == {0}
CPU_TSC == {4}
CPU_CMOV == {15}
CPU_MMX == {23}
CPU_SSE == {25}
CPU_SSE2 == {26}
CPU_AMD == {59}
CPU_MMXEX == {60}
CPU_3DNOWEX == {62}
CPU_3DNOW == {63}

CPU_AMD_L == {59 - 32}
CPU_3DNOWEX_L == {62 - 32}
CPU_3DNOW_L == {63 - 32}

CPU_L2SIZE_SHIFT == 32
CPU_L2SIZE_UNIT == 32 * 1024
CPU_L2SIZE == 1023
CPU_L1DATASIZE_SHIFT == 42
CPU_L1DATASIZE_UNIT == 8 * 1024
CPU_L1DATASIZE == 255
CPU_FAMILY_SHIFT == 50
CPU_FAMILY == 15

---------------------------------------------------------------------------
(* Bit-level helpers *)

Pow2(n) == 2 ^ n

\* n & mask, for a mask of the form 2^k - 1
AndMask(n, mask) == n % (mask + 1)

\* the 1-bit positions of (n << shift), for 0 <= n < 2^width
ShiftBits(n, shift, width) ==
    {shift + i : i \in {j \in 0 .. width - 1 : (n \div Pow2(j)) % 2 = 1}}

RECURSIVE SumPow(_, _)
SumPow(S, shift) ==
    IF S = {} THEN 0
    ELSE LET b == CHOOSE x \in S : TRUE
         IN  Pow2(b - shift) + SumPow(S \ {b}, shift)

\* (bits >> shift) & mask, for a mask of the form 2^width - 1
FieldOf(bits, shift, width) ==
    SumPow({b \in bits : b >= shift /\ b < shift + width}, shift)

\* the positions of a 32-bit register moved into the high dword (x << 32)
ShiftLeft32(bits) == {b + 32 : b \in bits}

\* (bits & mask) != 0
Has(bits, mask) == bits \cap mask # {}


---------------------------------------------------------------------------
(* The processor: the answers of the cpuid instruction *)

\* the cpuid invocations of _cpuInfo(), in program order
Queries == {"q0", "q1", "qx0", "qx1", "qx5", "qx6", "q2"}

\* a 32-bit register value too large for a signed integer: bit 31 and the rest
Reg32(top, low) == [top |-> top, low |-> low]

\* unsigned x < 0x80000000 + k  (cmp eax,0x8000000k; jb)
BelowExt(x, k) == x.top = 0 \/ x.low < k

\* cpuid(2) register images, 16 bytes: eax, ebx, ecx, edx, little-endian
RegsP3 == <<1, 1, 2, 3,  0, 0, 0, 0,  0, 0, 0, 0,  67, 8, 4, 12>>
RegsP4 == <<1, 102, 122, 0,  0, 0, 0, 0,  0, 0, 0, 0,  71, 64, 10, 0>>
RegsNegative == <<1, 102, 122, 128,  67, 0, 0, 0,  0, 0, 0, 0,  132, 104, 120, 0>>
RegsEmpty == <<1, 0, 0, 0,  0, 0, 0, 0,  0, 0, 0, 0,  0, 0, 0, 0>>

\* eax of cpuid(1): base family in bits 8..11, extended family in bits 20..27
Eax1(baseFamily, extFamily) == baseFamily * 256 + extFamily * 1048576 + 3

FeatureBits == CPU_FPU \cup CPU_TSC \cup CPU_CMOV \cup CPU_MMX \cup CPU_SSE \cup CPU_SSE2

BaseHw ==
    [trapAt |-> "none", maxArg |-> 2, eax1 |-> Eax1(6, 0), edx1 |-> FeatureBits,
     extEax |-> Reg32(0, 3), amdEdx |-> {}, ecx5 |-> 0, ecx6 |-> 0,
     regs2 |-> RegsP3]

\* an AMD-style processor: extended leaves up to 0x80000006
AmdHw ==
    [BaseHw EXCEPT !.extEax = Reg32(1, 6), !.amdEdx = {22, 30, 31},
                   !.ecx5 = 64 * 16777216 + 65536 + 320,
                   !.ecx6 = 512 * 65536 + 8192 + 64]

\* every combination of raw feature bits, basic and extended levels
HwFlagSet ==
    {[BaseHw EXCEPT !.edx1 = f, !.maxArg = m, !.extEax = x, !.amdEdx = a,
                    !.ecx5 = AmdHw.ecx5, !.ecx6 = AmdHw.ecx6] :
        f \in SUBSET FeatureBits, m \in {0, 1, 2},
        x \in {Reg32(0, 3), Reg32(1, 4), Reg32(1, 5), Reg32(1, 6)},
        a \in SUBSET (CPU_3DNOWEX_L \cup CPU_3DNOW_L)}

\* a trap at each query, on both vendor paths
HwTrapSet ==
    {[h EXCEPT !.trapAt = q] : q \in Queries, h \in {BaseHw, AmdHw}}

\* cache-descriptor leaves under each family code
HwCacheSet ==
    {[BaseHw EXCEPT !.regs2 = r, !.eax1 = e, !.edx1 = f] :
        r \in {RegsP3, RegsP4, RegsNegative, RegsEmpty},
        e \in {Eax1(5, 0), Eax1(6, 0), Eax1(15, 0), Eax1(15, 1), Eax1(15, 7)},
        f \in {FeatureBits, CPU_FPU \cup CPU_MMX}}

HwAll == HwFlagSet \cup HwTrapSet \cup HwCacheSet

\* a representative choice for the specifications that also run array calls or
\* several threads
HwSmall ==
    {BaseHw, AmdHw,
     [BaseHw EXCEPT !.maxArg = 0],
     [BaseHw EXCEPT !.maxArg = 1, !.edx1 = CPU_FPU \cup CPU_MMX],
     [BaseHw EXCEPT !.trapAt = "q0"],
     [BaseHw EXCEPT !.trapAt = "q2"],
     [AmdHw EXCEPT !.trapAt = "qx5"],
     [AmdHw EXCEPT !.extEax = Reg32(1, 5), !.amdEdx = CPU_3DNOWEX_L]}

\* what an uninitialized cpuid1regEAX may hold
GarbageEax == {0, Eax1(9, 0)}

---------------------------------------------------------------------------
(* _cpuInfo(): ArraysFunctions.h *)

\* lines 54-65: the downgrade rules applied to edx of cpuid(1)
\* edx stored as cpuid gave it, for comparison with the rules below
DowngradeEdxNone(edx) == edx
DowngradeEdx(edx) ==
    LET e1 == IF Has(edx, CPU_FPU) THEN edx ELSE edx \ CPU_CMOV
        e2 == IF Has(e1, CPU_MMX) THEN e1 ELSE e1 \ (CPU_SSE \cup CPU_SSE2)
        e3 == IF Has(e2, CPU_SSE) THEN e2 ELSE e2 \ CPU_SSE2
    IN  e3

\* lines 78-82: edx of cpuid(0x80000001)
DowngradeAmd(edx) ==
    LET e1 == edx \cup CPU_AMD_L
    IN  IF Has(e1, CPU_3DNOW_L) THEN e1 ELSE e1 \ CPU_3DNOWEX_L

\* lines 119-120
CpuFamily(eax) ==
    LET f == (eax \div 256) % 16
    IN  IF f = 15 THEN (eax \div 1048576) % 16 ELSE f

\* line 124: a register with bit 31 set holds no descriptors
ClearNegative(regs) ==
    [k \in 1 .. 16 |-> IF regs[4 * ((k - 1) \div 4) + 4] >= 128 THEN 0 ELSE regs[k]]

\* lines 126-146: the contribution of one descriptor byte, <<to l1d, to l2>>
DescriptorKB(v, cpuFamily) ==
    LET vl == v % 16
        hi == v \div 16
    IN  CASE hi = 0 -> IF vl = 10 THEN <<8, 0>>
                       ELSE IF vl = 12 THEN <<16, 0>> ELSE <<0, 0>>
          [] hi = 4 -> IF cpuFamily > 6 THEN <<0, 0>>
                       ELSE IF vl # 0 THEN <<0, 128 * Pow2(vl - 1)>> ELSE <<0, 0>>
          [] hi = 8 -> IF vl # 0 THEN <<0, 128 * Pow2(vl - 1)>> ELSE <<0, 0>>
          [] hi = 6 -> IF vl >= 6 THEN <<8 * Pow2(vl - 6), 0>> ELSE <<0, 0>>
          [] hi = 7 -> IF vl >= 8 THEN <<0, 64 * Pow2(vl - 8)>> ELSE <<0, 0>>
          [] OTHER -> <<0, 0>>

\* lines 125-147: k = 1 .. 15 (cpuid2info[0], AL, is skipped)
RECURSIVE DescriptorLoop(_, _, _, _, _)
DescriptorLoop(regs, k, cpuFamily, l1d, l2) ==
    IF k >= 16 THEN <<l1d, l2>>
    ELSE LET d == DescriptorKB(regs[k + 1], cpuFamily)
         IN  DescriptorLoop(regs, k + 1, cpuFamily, l1d + d[1], l2 + d[2])

\* line 115: the value the handler stores and returns
CatchValue(last) == {}

\* line 32: the memoization test
\* a prober without the test of line 32, for comparison
CachedHitNever(calculated) == FALSE
CachedHit(calculated) == calculated

\* late is history: the call was entered after a handler had returned
InitLocals(garbage) ==
    [cpuid1regEAX |-> garbage, amdFeatures |-> {}, l1d |-> 0, l2 |-> 0,
     cpuid2regs |-> RegsEmpty, savedEax |-> Reg32(0, 0), cpuFamily |-> 0,
     late |-> FALSE]

NoLocals == InitLocals(0)

Return(t, value) ==
    /\ rets' = [rets EXCEPT ![t] = Append(@, value)]
    /\ pc' = [pc EXCEPT ![t] = "idle"]
    /\ loc' = [loc EXCEPT ![t] = NoLocals]

Goto(t, label) == pc' = [pc EXCEPT ![t] = label]

Traps(q) == hw.trapAt = q

\* a thread enters _cpuInfo(); its uninitialized locals hold anything
Call(t) ==
    /\ t \in threads
    /\ pc[t] = "idle"
    /\ Len(rets[t]) < MaxCalls
    /\ phase # "called"
    /\ \E g \in GarbageEax :
           loc' = [loc EXCEPT ![t] = [InitLocals(g) EXCEPT !.late = trapped]]
    /\ Goto(t, "check")
    /\ UNCHANGED <<cpuInfoCalculated, cpuInfoLast, maxArgForCpuId, hw, threads,
                   rets, nQueries>>
    /\ UNCHANGED <<arrayVars, trapped>>

\* line 32: if (cpuInfoCalculated) return cpuInfoLast;
Check(t) ==
    /\ t \in threads
    /\ pc[t] = "check"
    /\ IF CachedHit(cpuInfoCalculated)
       THEN Return(t, cpuInfoLast)
       ELSE Goto(t, "setflag") /\ UNCHANGED <<rets, loc>>
    /\ UNCHANGED <<cpuInfoCalculated, cpuInfoLast, maxArgForCpuId, hw, threads,
                   nQueries>>
    /\ UNCHANGED <<arrayVars, trapped>>

\* line 33: cpuInfoCalculated= true;
SetFlag(t) ==
    /\ t \in threads
    /\ pc[t] = "setflag"
    /\ cpuInfoCalculated' = TRUE
    /\ nQueries' = nQueries + 1
    /\ Goto(t, "q0")
    /\ UNCHANGED <<cpuInfoLast, maxArgForCpuId, hw, threads, loc, rets>>
    /\ UNCHANGED <<arrayVars, trapped>>

\* lines 43-48: cpuid(0)
Q0(t) ==
    /\ t \in threads
    /\ pc[t] = "q0"
    /\ IF Traps("q0") THEN Goto(t, "catch") /\ UNCHANGED maxArgForCpuId
       ELSE IF hw.maxArg = 0 THEN Goto(t, "p1") /\ UNCHANGED maxArgForCpuId
       ELSE Goto(t, "q1") /\ maxArgForCpuId' = hw.maxArg
    /\ UNCHANGED <<cpuInfoCalculated, cpuInfoLast, hw, threads, loc, rets, nQueries>>
    /\ UNCHANGED <<arrayVars, trapped>>

\* lines 50-66: cpuid(1); mov dword ptr cpuInfoLast,edx stores the low dword
Q1(t) ==
    /\ t \in threads
    /\ pc[t] = "q1"
    /\ IF Traps("q1")
       THEN Goto(t, "catch") /\ UNCHANGED <<loc, cpuInfoLast>>
       ELSE /\ loc' = [loc EXCEPT ![t].cpuid1regEAX = hw.eax1]
            /\ cpuInfoLast' = {b \in cpuInfoLast : b >= 32} \cup DowngradeEdx(hw.edx1)
            /\ Goto(t, "qx0")
    /\ UNCHANGED <<cpuInfoCalculated, maxArgForCpuId, hw, threads, rets, nQueries>>
    /\ UNCHANGED <<arrayVars, trapped>>

\* lines 68-74: cpuid(0x80000000)
QX0(t) ==
    /\ t \in threads
    /\ pc[t] = "qx0"
    /\ IF Traps("qx0") THEN Goto(t, "catch") /\ UNCHANGED loc
       ELSE IF BelowExt(hw.extEax, 5) THEN Goto(t, "noamd") /\ UNCHANGED loc
       ELSE Goto(t, "qx1") /\ loc' = [loc EXCEPT ![t].savedEax = hw.extEax]
    /\ UNCHANGED <<cpuInfoCalculated, cpuInfoLast, maxArgForCpuId, hw, threads,
                   rets, nQueries>>
    /\ UNCHANGED <<arrayVars, trapped>>

\* lines 75-83: cpuid(0x80000001)
QX1(t) ==
    /\ t \in threads
    /\ pc[t] = "qx1"
    /\ IF Traps("qx1") THEN Goto(t, "catch") /\ UNCHANGED loc
       ELSE Goto(t, "qx5")
            /\ loc' = [loc EXCEPT ![t].amdFeatures = DowngradeAmd(hw.amdEdx)]
    /\ UNCHANGED <<cpuInfoCalculated, cpuInfoLast, maxArgForCpuId, hw, threads,
                   rets, nQueries>>
    /\ UNCHANGED <<arrayVars, trapped>>

\* lines 84-92: cpuid(0x80000005); shr ecx,24
QX5(t) ==
    /\ t \in threads
    /\ pc[t] = "qx5"
    /\ IF Traps("qx5") THEN Goto(t, "catch") /\ UNCHANGED loc
       ELSE /\ loc' = [loc EXCEPT ![t].l1d = hw.ecx5 \div 16777216]
            /\ IF BelowExt(loc[t].savedEax, 6) THEN Goto(t, "p1") ELSE Goto(t, "qx6")
    /\ UNCHANGED <<cpuInfoCalculated, cpuInfoLast, maxArgForCpuId, hw, threads,
                   rets, nQueries>>
    /\ UNCHANGED <<arrayVars, trapped>>

\* lines 93-98: cpuid(0x80000006); shr ecx,16
QX6(t) ==
    /\ t \in threads
    /\ pc[t] = "qx6"
    /\ IF Traps("qx6") THEN Goto(t, "catch") /\ UNCHANGED loc
       ELSE Goto(t, "p1") /\ loc' = [loc EXCEPT ![t].l2 = hw.ecx6 \div 65536]
    /\ UNCHANGED <<cpuInfoCalculated, cpuInfoLast, maxArgForCpuId, hw, threads,
                   rets, nQueries>>
    /\ UNCHANGED <<arrayVars, trapped>>

\* lines 102-103: cmp maxArgForCpuId,2; jb _Exit
NoAmd(t) ==
    /\ t \in threads
    /\ pc[t] = "noamd"
    /\ IF maxArgForCpuId < 2 THEN Goto(t, "p1") ELSE Goto(t, "q2")
    /\ UNCHANGED <<cpuInfoCalculated, cpuInfoLast, maxArgForCpuId, hw, threads,
                   loc, rets, nQueries>>
    /\ UNCHANGED <<arrayVars, trapped>>

\* lines 104-110: cpuid(2)
Q2(t) ==
    /\ t \in threads
    /\ pc[t] = "q2"
    /\ IF Traps("q2") THEN Goto(t, "catch") /\ UNCHANGED loc
       ELSE Goto(t, "p1") /\ loc' = [loc EXCEPT ![t].cpuid2regs = hw.regs2]
    /\ UNCHANGED <<cpuInfoCalculated, cpuInfoLast, maxArgForCpuId, hw, threads,
                   rets, nQueries>>
    /\ UNCHANGED <<arrayVars, trapped>>

\* lines 114-116: catch (...) { return cpuInfoLast= 0; }
Catch(t) ==
    /\ t \in threads
    /\ pc[t] = "catch"
    /\ cpuInfoLast' = CatchValue(cpuInfoLast)
    /\ Return(t, CatchValue(cpuInfoLast))
    /\ trapped' = TRUE
    /\ UNCHANGED <<cpuInfoCalculated, maxArgForCpuId, hw, threads, nQueries>>
    /\ UNCHANGED arrayVars

\* line 117: if (cpuInfoLast&CPU_SSE) cpuInfoLast|=CPU_MMXEX;
P1(t) ==
    /\ t \in threads
    /\ pc[t] = "p1"
    /\ cpuInfoLast' = IF Has(cpuInfoLast, CPU_SSE) THEN cpuInfoLast \cup CPU_MMXEX
                      ELSE cpuInfoLast
    /\ Goto(t, "p2")
    /\ UNCHANGED <<cpuInfoCalculated, maxArgForCpuId, hw, threads, loc, rets, nQueries>>
    /\ UNCHANGED <<arrayVars, trapped>>

\* lines 119-121: the family field
P2(t) ==
    /\ t \in threads
    /\ pc[t] = "p2"
    /\ LET cpuFamily == CpuFamily(loc[t].cpuid1regEAX)
       IN  /\ loc' = [loc EXCEPT ![t].cpuFamily = cpuFamily]
           /\ cpuInfoLast' = cpuInfoLast \cup
                  ShiftBits(AndMask(cpuFamily, CPU_FAMILY), CPU_FAMILY_SHIFT, 4)
    /\ Goto(t, "p3")
    /\ UNCHANGED <<cpuInfoCalculated, maxArgForCpuId, hw, threads, rets, nQueries>>
    /\ UNCHANGED <<arrayVars, trapped>>

\* line 122: the vendor flags
P3(t) ==
    /\ t \in threads
    /\ pc[t] = "p3"
    /\ cpuInfoLast' = cpuInfoLast \cup
           ShiftLeft32(loc[t].amdFeatures \cap
                       (CPU_AMD_L \cup CPU_3DNOW_L \cup CPU_3DNOWEX_L))
    /\ Goto(t, "p4")
    /\ UNCHANGED <<cpuInfoCalculated, maxArgForCpuId, hw, threads, loc, rets, nQueries>>
    /\ UNCHANGED <<arrayVars, trapped>>

\* lines 123-150: the cache-descriptor loop and the division by the units
P4(t) ==
    /\ t \in threads
    /\ pc[t] = "p4"
    /\ LET sizes == IF loc[t].amdFeatures = {} /\ maxArgForCpuId >= 2
                    THEN DescriptorLoop(ClearNegative(loc[t].cpuid2regs), 1,
                                        loc[t].cpuFamily, loc[t].l1d, loc[t].l2)
                    ELSE <<loc[t].l1d, loc[t].l2>>
       IN  loc' = [loc EXCEPT ![t].l1d = sizes[1] \div (CPU_L1DATASIZE_UNIT \div 1024),
                              ![t].l2 = sizes[2] \div (CPU_L2SIZE_UNIT \div 1024)]
    /\ Goto(t, "p5")
    /\ UNCHANGED <<cpuInfoCalculated, cpuInfoLast, maxArgForCpuId, hw, threads,
                   rets, nQueries>>
    /\ UNCHANGED <<arrayVars, trapped>>

\* line 151: the L1 data cache field
P5(t) ==
    /\ t \in threads
    /\ pc[t] = "p5"
    /\ cpuInfoLast' = cpuInfoLast \cup
           ShiftBits(AndMask(loc[t].l1d, CPU_L1DATASIZE), CPU_L1DATASIZE_SHIFT, 8)
    /\ Goto(t, "p6")
    /\ UNCHANGED <<cpuInfoCalculated, maxArgForCpuId, hw, threads, loc, rets, nQueries>>
    /\ UNCHANGED <<arrayVars, trapped>>

\* line 152: the L2 cache field
P6(t) ==
    /\ t \in threads
    /\ pc[t] = "p6"
    /\ cpuInfoLast' = cpuInfoLast \cup
           ShiftBits(AndMask(loc[t].l2, CPU_L2SIZE), CPU_L2SIZE_SHIFT, 10)
    /\ Goto(t, "ret")
    /\ UNCHANGED <<cpuInfoCalculated, maxArgForCpuId, hw, threads, loc, rets, nQueries>>
    /\ UNCHANGED <<arrayVars, trapped>>

\* line 153: return cpuInfoLast;
Ret(t) ==
    /\ t \in threads
    /\ pc[t] = "ret"
    /\ Return(t, cpuInfoLast)
    /\ UNCHANGED <<cpuInfoCalculated, cpuInfoLast, maxArgForCpuId, hw, threads,
                   nQueries>>
    /\ UNCHANGED <<arrayVars, trapped>>

\* no JNI call made, no exception pending
NoJni == [calls |-> <<>>, thrown |-> "none"]

\* no partition: the call ran memset or memmove, or no body at all
NoPart ==
    [loop |-> "none", lenStart |-> 0, len |-> 0, lenEnd |-> 0, unit |-> 1,
     size |-> 1, bodyAt |-> 0, store |-> "none"]

InitProbe(T, H) ==
    /\ cpuInfoCalculated = FALSE
    /\ cpuInfoLast = {}
    /\ maxArgForCpuId = 0
    /\ hw \in H
    /\ threads = T
    /\ pc = [t \in T |-> "idle"]
    /\ loc = [t \in T |-> NoLocals]
    /\ rets = [t \in T |-> <<>>]
    /\ nQueries = 0
    /\ trapped = FALSE

NoArrays ==
    /\ mem = <<>>
    /\ pre = <<>>
    /\ req = [op |-> "none"]
    /\ variant = "none"
    /\ jni = NoJni
    /\ part = NoPart
    /\ phase = "none"
    /\ nOps = 0

---------------------------------------------------------------------------
(* Memory, elements and requests *)

\* The memory is the sequence of its bytes: mem[x] is the byte at address x,
\* for the addresses 1 .. Len(mem).  A block of bytes (an element, a vector
\* register, the filler) is the sequence of its bytes in address order, so an
\* element is little-endian.

\* sizeof(TYPE)
SizeOf(type) ==
    CASE type = "byte" -> 1
      [] type \in {"short", "ushort"} -> 2
      [] type \in {"int", "float"} -> 4
      [] type \in {"long", "double"} -> 8

\* the n bytes at addr
Load(m, addr, n) == SubSeq(m, addr, addr + n - 1)

\* m with the block data stored at addr
Store(m, addr, data) ==
    SubSeq(m, 1, addr - 1) \o data \o SubSeq(m, addr + Len(data), Len(m))

\* the block repeated n times
Repeat(block, n) == [k \in 1 .. n * Len(block) |-> block[((k - 1) % Len(block)) + 1]]

---------------------------------------------------------------------------
(* fill: Arrays_fill.h, instantiated by Java_..._fill__J_3?II? *)

\* lines 27-29
\* the L2 field taken as it is, for comparison
CacheSizeNoFloor(CpuInfo) ==
    FieldOf(CpuInfo, CPU_L2SIZE_SHIFT, 10) * CPU_L2SIZE_UNIT

CacheSize(CpuInfo) ==
    LET cacheSize == FieldOf(CpuInfo, CPU_L2SIZE_SHIFT, 10) * CPU_L2SIZE_UNIT
    IN  IF cacheSize < 65536 THEN 65536 ELSE cacheSize

\* line 34: the 32-byte filler holds V repeated
Filler(V, w) == Repeat(V, 32 \div w)

\* lines 65-77 / 78-89: one pass of the 128-byte loop stores xmm0 eight times;
\* the loop is entered with ecx > 0 and runs until dec ecx gives 0
RECURSIVE FillLoop128(_, _, _, _)
FillLoop128(m, edi, ecx, xmm0) ==
    LET m1 == Store(m, edi, Repeat(xmm0, 8))
    IN  IF ecx - 1 # 0 THEN FillLoop128(m1, edi + 128, ecx - 1, xmm0)
        ELSE [m |-> m1, edi |-> edi + 128]

\* lines 94-98: _Loop2 stores xmm0 once per pass
RECURSIVE FillLoop16(_, _, _, _)
FillLoop16(m, edi, ecx, xmm0) ==
    LET m1 == Store(m, edi, xmm0)
    IN  IF ecx - 1 # 0 THEN FillLoop16(m1, edi + 16, ecx - 1, xmm0)
        ELSE [m |-> m1, edi |-> edi + 16]

\* line 26: the condition of the SSE branch
\* the same condition with a 64-byte threshold, for comparison
FillUsesSSEOver64(CpuInfo, length, w) == Has(CpuInfo, CPU_SSE) /\ length * w > 64
FillUsesSSE(CpuInfo, length, w) == Has(CpuInfo, CPU_SSE) /\ length * w > 32

\* lines 40-44: the bytes stored before the first aligned store, and the
\* offset in the filler of the sixteen bytes the aligned stores repeat
FillLenStart(disp) == IF disp # 0 THEN 32 - disp ELSE 0
\* a filler read from its first byte whatever the head, for comparison
FillerDispZero(disp, lenStart) == 0
FillerDisp(disp, lenStart) == IF disp # 0 THEN lenStart % 16 ELSE 0

\* lines 37-46: the head, the count of sixteen-byte stores and the tail, in
\* bytes
FillPartition(pa, length, w) ==
    LET disp == pa % 32
        lenStart == FillLenStart(disp)
        len1 == length * w - lenStart
    IN  [lenStart |-> lenStart, fillerDisp |-> FillerDisp(disp, lenStart),
         len |-> len1 \div 16, lenEnd |-> len1 % 16]

\* lines 60-64: the store instruction of the 128-byte loop
FillBodyStore(CpuInfo, len) ==
    LET cacheSizeIn128ByteBlocks == CacheSize(CpuInfo) \div 128
        ecx == len \div 8
    IN  IF ecx = 0 THEN "none"
        ELSE IF ecx < cacheSizeIn128ByteBlocks THEN "movaps" ELSE "movntps"

\* lines 27-106: the SSE branch; returns the memory and the kind of body store
FillSSE(m, CpuInfo, a, BeginIndex, length, V, w) ==
    LET pa == a + BeginIndex * w
        filler == Filler(V, w)
        p == FillPartition(pa, length, w)
        \* lines 51-55: rep movsb from filler
        m1 == Store(m, pa, SubSeq(filler, 1, p.lenStart))
        edi1 == pa + p.lenStart
        \* lines 57-59: movups xmm0,[filler+fillerDisp]
        xmm0 == SubSeq(filler, p.fillerDisp + 1, p.fillerDisp + 16)
        \* lines 60-64
        ecx1 == p.len \div 8
        r2 == IF ecx1 = 0 THEN [m |-> m1, edi |-> edi1]
              ELSE FillLoop128(m1, edi1, ecx1, xmm0)
        \* lines 91-98
        ecx2 == p.len % 8
        r3 == IF ecx2 = 0 THEN r2 ELSE FillLoop16(r2.m, r2.edi, ecx2, xmm0)
        \* lines 102-103: rep movsb, esi still at filler+fillerDisp
        m4 == Store(r3.m, r3.edi,
                    SubSeq(filler, p.fillerDisp + 1, p.fillerDisp + p.lenEnd))
    IN  [m |-> m4, store |-> FillBodyStore(CpuInfo, p.len)]

\* line 119: n elements set to V one after another
RECURSIVE FillElems(_, _, _, _, _)
FillElems(m, pa, n, V, w) ==
    IF n <= 0 THEN m
    ELSE FillElems(Store(m, pa, V), pa + w, n - 1, V, w)

\* lines 115-118: each pass assigns pa[0] .. pa[7]
RECURSIVE FillLoop8(_, _, _, _, _)
FillLoop8(m, pa, len, V, w) ==
    IF len > 0 THEN FillLoop8(Store(m, pa, Repeat(V, 8)), pa + 8 * w, len - 1, V, w)
    ELSE [m |-> m, pa |-> pa]

\* lines 110-120: the portable branch
FillScalar(m, a, BeginIndex, length, V, w) ==
    LET pa == a + BeginIndex * w
    IN  IF w = 1
        THEN \* memset(pa,(int)V,Len)
             [m |-> Store(m, pa, Repeat(V, length)), store |-> "none"]
        ELSE \* LOOP_PREFIX(8*sizeof(TYPE))
             LET lenEnd == length % 8
                 len == length \div 8
                 r == FillLoop8(m, pa, len, V, w)
             IN  [m |-> FillElems(r.m, r.pa, lenEnd, V, w), store |-> "none"]

\* the whole body included between SINGLE_PREFIX and SINGLE_POSTFIX
FillKernel(m, r) ==
    LET w == SizeOf(r.type)
    IN  IF FillUsesSSE(r.CpuInfo, r.Len, w)
        THEN FillSSE(m, r.CpuInfo, r.a, r.Aofs, r.Len, r.V, w) @@ [variant |-> "SSE"]
        ELSE FillScalar(m, r.a, r.Aofs, r.Len, r.V, w) @@ [variant |-> "scalar"]

---------------------------------------------------------------------------
(* copyBytes: ArraysNative.cpp, Java_net_algart_array_ArraysNative_copyBytes *)

\* ArraysMacro.h LOOP_PREFIX_ALIGNED(UNLOOPING) for elements of w bytes at pa;
\* unit is UNLOOPING/sizeof(*pa).  The counts are in elements.
\* no head for a length shorter than one unit, for comparison
LoopPrefixAlignedHeadFromUnit(pa, length, w, unit) ==
    LET disp == pa % 32
        lenStart == IF disp # 0 /\ disp % w = 0 /\ ~(length < unit)
                    THEN (32 - disp) \div w ELSE 0
        len == (length - lenStart) \div unit
        lenEnd == (length - lenStart) % unit
    IN  IF len > 0
        THEN [lenStart |-> lenStart, len |-> len - 1, lenEnd |-> lenEnd + unit]
        ELSE [lenStart |-> lenStart, len |-> len, lenEnd |-> lenEnd]

\* the tail as the plain remainder, for comparison
LoopPrefixAlignedRemainderTail(pa, length, w, unit) ==
    LET disp == pa % 32
        toBoundary == (32 - disp) \div w
        lenStart == IF disp # 0 /\ disp % w = 0 /\ ~(length < toBoundary)
                    THEN toBoundary ELSE 0
    IN  [lenStart |-> lenStart, len |-> (length - lenStart) \div unit,
         lenEnd |-> (length - lenStart) % unit]

\* the head not taken off the length, for comparison
LoopPrefixAlignedKeepsHead(pa, length, w, unit) ==
    LET disp == pa % 32
        toBoundary == (32 - disp) \div w
        lenStart == IF disp # 0 /\ disp % w = 0 /\ ~(length < toBoundary)
                    THEN toBoundary ELSE 0
    IN  IF length \div unit > 0
        THEN [lenStart |-> lenStart, len |-> length \div unit - 1,
              lenEnd |-> (length % unit) + unit]
        ELSE [lenStart |-> lenStart, len |-> 0, lenEnd |-> length % unit]

\* one pass moved to the tail and still counted in the body, for comparison
LoopPrefixAlignedKeepsLen(pa, length, w, unit) ==
    LET disp == pa % 32
        toBoundary == (32 - disp) \div w
        lenStart == IF disp # 0 /\ disp % w = 0 /\ ~(length < toBoundary)
                    THEN toBoundary ELSE 0
        len1 == length - lenStart
    IN  IF len1 \div unit > 0
        THEN [lenStart |-> lenStart, len |-> len1 \div unit,
              lenEnd |-> (len1 % unit) + unit]
        ELSE [lenStart |-> lenStart, len |-> 0, lenEnd |-> len1 % unit]

LoopPrefixAligned(pa, length, w, unit) ==
    LET disp == pa % 32
        toBoundary == (32 - disp) \div w
        lenStart == IF disp # 0 /\ disp % w = 0 /\ ~(length < toBoundary)
                    THEN toBoundary ELSE 0
        len1 == length - lenStart
        lenEnd == len1 % unit
        len == len1 \div unit
    IN  IF len > 0
        THEN [lenStart |-> lenStart, len |-> len - 1, lenEnd |-> lenEnd + unit]
        ELSE [lenStart |-> lenStart, len |-> len, lenEnd |-> lenEnd]

\* cld; rep movsb: ecx bytes moved one at a time, lowest address first, so a
\* byte stored by an earlier move is the byte a later move reads.  The count
\* is halved at each level; the order of the moves is the processor's.
RECURSIVE RepMovsb(_, _, _, _)
RepMovsb(m, esi, edi, ecx) ==
    IF ecx <= 0 THEN m
    ELSE IF ecx = 1 THEN Store(m, edi, Load(m, esi, 1))
    ELSE LET h == ecx \div 2
             m1 == RepMovsb(m, esi, edi, h)
         IN  \* the test is always true: it has m1 computed before the rest
             IF Len(m1) = Len(m) THEN RepMovsb(m1, esi + h, edi + h, ecx - h)
             ELSE m1

\* lines 119-133 / 136-151 / 152-166: one pass loads xmm0..xmm3 from [esi]
\* and then stores them at [edi]; entered with ecx > 0
RECURSIVE CopyLoop64(_, _, _, _)
CopyLoop64(m, esi, edi, ecx) ==
    LET xmm == Load(m, esi, 64)
        m1 == Store(m, edi, xmm)
    IN  IF ecx - 1 # 0 THEN CopyLoop64(m1, esi + 64, edi + 64, ecx - 1)
        ELSE [m |-> m1, esi |-> esi + 64, edi |-> edi + 64]

\* memmove(dst, src, n) of the C library
MemMove(m, dst, src, n) == Store(m, dst, Load(m, src, n))

\* line 96: the condition of the SSE branch
CopyUsesSSE(CpuInfo) == Has(CpuInfo, CPU_SSE)

\* the aligned loops entered without the two alignment tests, for comparison
CopyBodyLoopUntested(CpuInfo, esi, edi, len) ==
    IF len = 0 THEN "none"
    ELSE IF len < (CacheSize(CpuInfo) \div 64) \div 2 THEN "movaps"
    ELSE "movntps"

\* lines 97-100, 111-118: the loop the body runs, named by its store
CopyBodyLoop(CpuInfo, esi, edi, len) ==
    LET cacheSizeIn64ByteBlocks == CacheSize(CpuInfo) \div 64
        nonCachedCopyMinLen == cacheSizeIn64ByteBlocks \div 2
    IN  IF len = 0 THEN "none"
        ELSE IF esi % 16 # 0 \/ edi % 16 # 0 THEN "movups"
        ELSE IF len < nonCachedCopyMinLen THEN "movaps"
        ELSE "movntps"

\* lines 97-173: the SSE branch; A is the source and B the destination
CopySSE(m, CpuInfo, a, Aofs, b, Bofs, length) ==
    LET pb == a + Aofs
        pa == b + Bofs
        p == LoopPrefixAligned(pa, length, 1, 64)
        \* lines 106-110
        m1 == RepMovsb(m, pb, pa, p.lenStart)
        esi1 == pb + p.lenStart
        edi1 == pa + p.lenStart
        \* lines 111-118
        loop == CopyBodyLoop(CpuInfo, esi1, edi1, p.len)
        r2 == IF p.len = 0 THEN [m |-> m1, esi |-> esi1, edi |-> edi1]
              ELSE CopyLoop64(m1, esi1, edi1, p.len)
        \* lines 168-170
        m3 == RepMovsb(r2.m, r2.esi, r2.edi, p.lenEnd)
    IN  [m |-> m3, store |-> loop]

\* lines 95-178
CopyKernel(m, r) ==
    IF CopyUsesSSE(r.CpuInfo)
    THEN CopySSE(m, r.CpuInfo, r.a, r.Aofs, r.b, r.Bofs, r.Len) @@ [variant |-> "SSE"]
    ELSE [m |-> MemMove(m, r.b + r.Bofs, r.a + r.Aofs, r.Len),
          store |-> "none", variant |-> "scalar"]

---------------------------------------------------------------------------
(* min and max: the comparison of two elements *)

IntTypes == {"byte", "short", "ushort", "int", "long"}
FloatTypes == {"float", "double"}

\* a byte read as a signed char
SignedByte(x) == IF x >= 128 THEN x - 256 ELSE x

\* x > y for two unsigned little-endian blocks, decided at byte k or below
RECURSIVE GreaterFrom(_, _, _)
GreaterFrom(x, y, k) ==
    IF k = 0 THEN FALSE
    ELSE IF x[k] # y[k] THEN x[k] > y[k]
    ELSE GreaterFrom(x, y, k - 1)

UnsignedGreater(x, y) == GreaterFrom(x, y, Len(x))

\* x > y for two's complement numbers: the top byte carries the sign
SignedGreater(x, y) ==
    LET w == Len(x)
    IN  IF x[w] # y[w] THEN SignedByte(x[w]) > SignedByte(y[w])
        ELSE GreaterFrom(x, y, w - 1)

\* IEEE 754 single (4 bytes) and double (8 bytes)
Negative(x) == x[Len(x)] >= 128
Magnitude(x) == [x EXCEPT ![Len(x)] = @ % 128]
Infinity(w) == IF w = 4 THEN <<0, 0, 128, 127>> ELSE <<0, 0, 0, 0, 0, 0, 240, 127>>
IsNaN(x) == UnsignedGreater(Magnitude(x), Infinity(Len(x)))
IsZero(x) == \A k \in 1 .. Len(x) : Magnitude(x)[k] = 0

\* x > y for IEEE numbers: false when either is a NaN, and for two zeros
FloatGreater(x, y) ==
    /\ ~IsNaN(x)
    /\ ~IsNaN(y)
    /\ ~(IsZero(x) /\ IsZero(y))
    /\ IF Negative(x) # Negative(y) THEN Negative(y)
       ELSE IF Negative(x) THEN UnsignedGreater(Magnitude(y), Magnitude(x))
       ELSE UnsignedGreater(Magnitude(x), Magnitude(y))

\* the C comparison x > y of two values of TYPE
Greater(x, y, type) ==
    CASE type \in {"byte", "short", "int", "long"} -> SignedGreater(x, y)
      [] type = "ushort" -> UnsignedGreater(x, y)
      [] type \in FloatTypes -> FloatGreater(x, y)

\* *pa CMP *pb: CMP is > in the min entry points and < in the max ones
Cmp(op, x, y, type) ==
    IF op = "min" THEN Greater(x, y, type) ELSE Greater(y, x, type)

\* if (*pa CMP *pb) *pa= *pb; for n elements in ascending order.  The count
\* is halved at each level; the order of the elements is the loop's.
RECURSIVE CmpElems(_, _, _, _, _, _)
CmpElems(m, pa, pb, n, op, type) ==
    LET w == SizeOf(type)
    IN  IF n <= 0 THEN m
        ELSE IF n = 1
        THEN LET x == Load(m, pa, w)
                 y == Load(m, pb, w)
             IN  IF Cmp(op, x, y, type) THEN Store(m, pa, y) ELSE m
        ELSE LET h == n \div 2
                 m1 == CmpElems(m, pa, pb, h, op, type)
             IN  \* the test is always true: it has m1 computed before the rest
                 IF Len(m1) = Len(m)
                 THEN CmpElems(m1, pa + h * w, pb + h * w, n - h, op, type)
                 ELSE m1

\* ArraysMacro.h lines 113-130 / 136-153: passes of 32 elements
RECURSIVE BodyLoop32(_, _, _, _, _, _)
BodyLoop32(m, pa, pb, len, op, type) ==
    IF len > 0
    THEN LET m1 == CmpElems(m, pa, pb, 32, op, type)
         IN  IF Len(m1) = Len(m)
             THEN BodyLoop32(m1, pa + 32 * SizeOf(type), pb + 32 * SizeOf(type),
                             len - 1, op, type)
             ELSE [m |-> m1, pa |-> pa, pb |-> pb]
    ELSE [m |-> m, pa |-> pa, pb |-> pb]

\* ArraysMacro.h MINBODY_LOOP / MAXBODY_LOOP, with LOOP_PREFIX(32*sizeof(TYPE))
MinMaxScalar(m, a, Aofs, b, Bofs, length, op, type) ==
    LET w == SizeOf(type)
        pa == a + Aofs * w
        pb == b + Bofs * w
        lenEnd == length % 32
        len == length \div 32
        r == BodyLoop32(m, pa, pb, len, op, type)
    IN  CmpElems(r.m, r.pa, r.pb, lenEnd, op, type)

---------------------------------------------------------------------------
(* min and max: the vector instructions, on registers given as byte blocks *)

ByteBits(x) == {i \in 0 .. 7 : (x \div Pow2(i)) % 2 = 1}

ByteXor(x, y) ==
    IF y = 0 THEN x
    ELSE IF y = 128 THEN (x + 128) % 256
    ELSE SumPow((ByteBits(x) \ ByteBits(y)) \cup (ByteBits(y) \ ByteBits(x)), 0)

ByteAnd(x, y) ==
    IF y = 255 THEN x
    ELSE IF y = 0 THEN 0
    ELSE SumPow(ByteBits(x) \cap ByteBits(y), 0)

ByteOr(x, y) ==
    IF y = 0 THEN x
    ELSE IF x = 0 THEN y
    ELSE SumPow(ByteBits(x) \cup ByteBits(y), 0)

\* pxor, pand, por dst,src; pandn dst,src is (NOT dst) AND src
Pxor(dst, src) == [k \in 1 .. Len(dst) |-> ByteXor(dst[k], src[k])]
Pand(dst, src) == [k \in 1 .. Len(dst) |-> ByteAnd(dst[k], src[k])]
Pandn(dst, src) == [k \in 1 .. Len(dst) |-> ByteAnd(src[k], 255 - dst[k])]
Por(dst, src) == [k \in 1 .. Len(dst) |-> ByteOr(dst[k], src[k])]

\* lane i (from 0) of lw bytes
Lane(x, i, lw) == SubSeq(x, i * lw + 1, i * lw + lw)

\* dst with every lane where TakeSrc(dst lane, src lane) replaced by src's
LaneSelect(dst, src, lw, TakeSrc(_, _)) ==
    [k \in 1 .. Len(dst) |->
        LET i == (k - 1) \div lw
        IN  IF TakeSrc(Lane(dst, i, lw), Lane(src, i, lw)) THEN src[k] ELSE dst[k]]

\* pcmpgtb / pcmpgtw / pcmpgtd: all ones in the lanes where dst > src, signed
Pcmpgt(dst, src, lw) ==
    [k \in 1 .. Len(dst) |->
        LET i == (k - 1) \div lw
        IN  IF SignedGreater(Lane(dst, i, lw), Lane(src, i, lw)) THEN 255 ELSE 0]

Pminub(dst, src) == LaneSelect(dst, src, 1, LAMBDA p, q : UnsignedGreater(p, q))
Pmaxub(dst, src) == LaneSelect(dst, src, 1, LAMBDA p, q : UnsignedGreater(q, p))
Pminsw(dst, src) == LaneSelect(dst, src, 2, LAMBDA p, q : SignedGreater(p, q))
Pmaxsw(dst, src) == LaneSelect(dst, src, 2, LAMBDA p, q : SignedGreater(q, p))

\* minps / maxps: the source lane unless dst < src (dst > src), so the source
\* lane when either is a NaN and when both are zeros
Minps(dst, src) == LaneSelect(dst, src, 4, LAMBDA p, q : ~FloatGreater(q, p))
Maxps(dst, src) == LaneSelect(dst, src, 4, LAMBDA p, q : ~FloatGreater(p, q))

\* fld qword ptr / fstp qword ptr: a signalling NaN comes back quiet
FldFstp(x) ==
    IF IsNaN(x) /\ (x[7] \div 8) % 2 = 0 THEN [x EXCEPT ![7] = @ + 8] ELSE x

\* fucomi st(0),st(1): the carry flag, set when st(0) < st(1) or unordered
Fucomi(st0, st1) == IsNaN(st0) \/ IsNaN(st1) \/ FloatGreater(st1, st0)

---------------------------------------------------------------------------
(* min and max: Arrays_minmax_int.h, Arrays_minmax_float.h,
   Arrays_minmax_double.h as the entry points of ArraysNative.cpp include them *)

\* BIT_MASK_SSE (ArraysNative.cpp 279, 536) and BIT_MASK_MMX (538)
HasBitMaskSSE(type) == type \in {"byte", "ushort"}
HasBitMaskMMX(type) == type = "ushort"
\* a mask that biases nothing, for comparison
BitMaskZero(type) == Repeat(<<0>>, 8)
BitMask(type) == IF type = "byte" THEN Repeat(<<128>>, 8) ELSE Repeat(<<0, 128>>, 4)

\* MINMAX_MMXEX dst,src (ArraysNative.cpp 280, 298, 351, 368, 537, 556)
MinMaxMmxEx(op, type, dst, src) ==
    IF type = "byte"
    THEN IF op = "min" THEN Pminub(dst, src) ELSE Pmaxub(dst, src)
    ELSE IF op = "min" THEN Pminsw(dst, src) ELSE Pmaxsw(dst, src)

\* Arrays_minmax_int.h 146-159 (and 161-174): sixteen bytes through mm0..mm3
MmxExMaskedHalf(m, eax, edx, op, type) ==
    LET mm7 == BitMask(type)
        mm0 == Pxor(Load(m, eax, 8), mm7)
        mm1 == Pxor(Load(m, eax + 8, 8), mm7)
        mm2 == Pxor(Load(m, edx, 8), mm7)
        mm3 == Pxor(Load(m, edx + 8, 8), mm7)
        r0 == Pxor(MinMaxMmxEx(op, type, mm0, mm2), mm7)
        r1 == Pxor(MinMaxMmxEx(op, type, mm1, mm3), mm7)
    IN  Store(m, eax, r0 \o r1)

\* Arrays_minmax_int.h 255-265 / 301-308: eight bytes selected by PCMPGT
MmxGroup(m, eax, edx, op, type) ==
    LET lw == SizeOf(type)
        mm0 == Load(m, eax, 8)
        mm1 == Load(m, edx, 8)
        mm0ForMin == IF op = "min" THEN mm0 ELSE mm1
        mm1ForMin == IF op = "min" THEN mm1 ELSE mm0
        mm2 == IF HasBitMaskMMX(type) THEN Pxor(mm0ForMin, BitMask(type)) ELSE mm0ForMin
        mm3 == IF HasBitMaskMMX(type) THEN Pxor(mm1ForMin, BitMask(type)) ELSE mm1ForMin
        gt == Pcmpgt(mm2, mm3, lw)
    IN  Store(m, eax, Por(Pand(mm1, gt), Pandn(gt, mm0)))

\* Arrays_minmax_double.h 36-41: one element through the x87 stack
FcmovStep(m, eax, edx, op) ==
    LET st1 == FldFstp(Load(m, eax, 8))
        st0 == FldFstp(Load(m, edx, 8))
        cf == Fucomi(st0, st1)
        \* fcmovnb st(0),st(1) for min, fcmovb st(0),st(1) for max
        moved == IF op = "min" THEN ~cf ELSE cf
    IN  Store(m, eax, IF moved THEN st1 ELSE st0)

RECURSIVE FcmovSteps(_, _, _, _, _)
FcmovSteps(m, eax, edx, n, op) ==
    IF n = 0 THEN m
    ELSE FcmovSteps(FcmovStep(m, eax, edx, op), eax + 8, edx + 8, n - 1, op)

\* UNLOOPING of the variant's LOOP_PREFIX_ALIGNED, in bytes
Unlooping(kind, type) ==
    IF kind = "MMX" \/ (kind = "MMXEX" /\ HasBitMaskSSE(type)) THEN 32 ELSE 64

\* one pass of the variant's assembler loop
VecPass(kind, m, eax, edx, op, type) ==
    CASE kind = "MMXEX" /\ HasBitMaskSSE(type) ->
             MmxExMaskedHalf(MmxExMaskedHalf(m, eax, edx, op, type),
                             eax + 16, edx + 16, op, type)
      [] kind = "MMXEX" /\ ~HasBitMaskSSE(type) ->
             Store(m, eax, MinMaxMmxEx(op, type, Load(m, eax, 64), Load(m, edx, 64)))
      [] kind = "MMX" ->
             MmxGroup(MmxGroup(MmxGroup(MmxGroup(m, eax, edx, op, type),
                 eax + 8, edx + 8, op, type), eax + 16, edx + 16, op, type),
                 eax + 24, edx + 24, op, type)
      [] kind = "SSE" ->
             Store(m, eax, IF op = "min" THEN Minps(Load(m, eax, 64), Load(m, edx, 64))
                                         ELSE Maxps(Load(m, eax, 64), Load(m, edx, 64)))
      [] kind = "CMOV" -> FcmovSteps(m, eax, edx, 8, op)

\* the assembler loop: entered with ecx > 0, left when dec ecx gives 0
RECURSIVE VecLoop(_, _, _, _, _, _, _)
VecLoop(kind, m, eax, edx, ecx, op, type) ==
    LET m1 == VecPass(kind, m, eax, edx, op, type)
        step == Unlooping(kind, type)
    IN  IF Len(m1) = Len(m) /\ ecx - 1 # 0
        THEN VecLoop(kind, m1, eax + step, edx + step, ecx - 1, op, type)
        ELSE [m |-> m1, eax |-> eax + step, edx |-> edx + step]

\* a vector branch: scalar head, assembler loop, scalar tail
MinMaxVector(kind, m, a, Aofs, b, Bofs, length, op, type) ==
    LET w == SizeOf(type)
        pa == a + Aofs * w
        pb == b + Bofs * w
        p == LoopPrefixAligned(pa, length, w, Unlooping(kind, type) \div w)
        m1 == CmpElems(m, pa, pb, p.lenStart, op, type)
        pa1 == pa + p.lenStart * w
        pb1 == pb + p.lenStart * w
        r2 == IF p.len = 0 THEN [m |-> m1, eax |-> pa1, edx |-> pb1]
              ELSE VecLoop(kind, m1, pa1, pb1, p.len, op, type)
    IN  CmpElems(r2.m, r2.eax, r2.edx, p.lenEnd, op, type)

\* the chain of branches of the entry point of (op, type)
\* a chain with the portable branch only, for comparison
MinMaxVariantScalar(type, CpuInfo) == "scalar"
MinMaxVariant(type, CpuInfo) ==
    IF type \in {"byte", "short", "ushort"} /\ Has(CpuInfo, CPU_MMXEX) THEN "MMXEX"
    ELSE IF type \in {"byte", "short", "ushort", "int"} /\ Has(CpuInfo, CPU_MMX) THEN "MMX"
    ELSE IF type = "float" /\ Has(CpuInfo, CPU_SSE) THEN "SSE"
    ELSE IF type = "double" /\ Has(CpuInfo, CPU_CMOV) THEN "CMOV"
    ELSE "scalar"

MinMaxKernel(m, r) ==
    LET kind == MinMaxVariant(r.type, r.CpuInfo)
    IN  [m |-> IF kind = "scalar"
               THEN MinMaxScalar(m, r.a, r.Aofs, r.b, r.Bofs, r.Len, r.op, r.type)
               ELSE MinMaxVector(kind, m, r.a, r.Aofs, r.b, r.Bofs, r.Len, r.op, r.type),
         store |-> "none", variant |-> kind]

---------------------------------------------------------------------------
(* The partition of the range each branch computes *)

\* the body the entry point of r.op runs on the memory m
Kernel(m, r) ==
    CASE r.op = "fill" -> FillKernel(m, r)
      [] r.op = "copy" -> CopyKernel(m, r)
      [] r.op \in {"min", "max"} -> MinMaxKernel(m, r)

\* the branch the entry point of r.op takes
Variant(r) ==
    CASE r.op = "fill" ->
             IF FillUsesSSE(r.CpuInfo, r.Len, SizeOf(r.type)) THEN "SSE" ELSE "scalar"
      [] r.op = "copy" -> IF CopyUsesSSE(r.CpuInfo) THEN "SSE" ELSE "scalar"
      [] r.op \in {"min", "max"} -> MinMaxVariant(r.type, r.CpuInfo)

\* Arrays_minmax_float.h lines 33-38: the loop the body runs
FloatBodyLoop(eax, edx, len) ==
    IF len = 0 THEN "none"
    ELSE IF eax % 16 # 0 \/ edx % 16 # 0 THEN "movups"
    ELSE "movaps"

\* lenStart, len and lenEnd as the branch of the request r computes them:
\* lenStart and lenEnd count items of size bytes, len counts passes of unit
\* items; bodyAt is the address of the first pass, store the instruction
\* that writes the body
Partition(r) ==
    LET w == SizeOf(r.type)
        pa == IF r.op = "copy" THEN r.b + r.Bofs ELSE r.a + r.Aofs * w
        pb == IF r.op = "copy" THEN r.a + r.Aofs ELSE r.b + r.Bofs * w
        kind == Variant(r)
        Aligned(unit, loop(_, _)) ==
            LET p == LoopPrefixAligned(pa, r.Len, w, unit)
            IN  [loop |-> "LOOP_PREFIX_ALIGNED", lenStart |-> p.lenStart,
                 len |-> p.len, lenEnd |-> p.lenEnd, unit |-> unit, size |-> w,
                 bodyAt |-> pa + p.lenStart * w,
                 store |-> loop(p.lenStart * w, p.len)]
        Plain(unit) ==
            [loop |-> "LOOP_PREFIX", lenStart |-> 0, len |-> r.Len \div unit,
             lenEnd |-> r.Len % unit, unit |-> unit, size |-> w, bodyAt |-> pa,
             store |-> IF r.Len \div unit = 0 THEN "none" ELSE "mov"]
    IN  CASE r.op = "fill" /\ kind = "SSE" ->
                 LET p == FillPartition(pa, r.Len, w)
                 IN  [loop |-> "fill", lenStart |-> p.lenStart, len |-> p.len,
                      lenEnd |-> p.lenEnd, unit |-> 16, size |-> 1,
                      bodyAt |-> pa + p.lenStart,
                      store |-> FillBodyStore(r.CpuInfo, p.len)]
          [] r.op = "fill" /\ kind = "scalar" ->
                 IF w = 1 THEN NoPart ELSE Plain(8)
          [] r.op = "copy" /\ kind = "SSE" ->
                 Aligned(64, LAMBDA d, n : CopyBodyLoop(r.CpuInfo, pb + d, pa + d, n))
          [] r.op = "copy" /\ kind = "scalar" -> NoPart
          [] r.op \in {"min", "max"} /\ kind = "scalar" -> Plain(32)
          [] r.op \in {"min", "max"} /\ kind = "SSE" ->
                 Aligned(64 \div w, LAMBDA d, n : FloatBodyLoop(pa + d, pb + d, n))
          [] r.op \in {"min", "max"} /\ kind = "CMOV" ->
                 Aligned(64 \div w, LAMBDA d, n : IF n = 0 THEN "none" ELSE "fstp")
          [] OTHER ->
                 Aligned(Unlooping(kind, r.type) \div w,
                         LAMBDA d, n : IF n = 0 THEN "none" ELSE "movq")

---------------------------------------------------------------------------
(* The JNI entry points: one array call *)

NoThreads ==
    /\ cpuInfoCalculated = FALSE
    /\ cpuInfoLast = {}
    /\ maxArgForCpuId = 0
    /\ hw = BaseHw
    /\ threads = {}
    /\ pc = <<>>
    /\ loc = <<>>
    /\ rets = <<>>
    /\ nQueries = 0
    /\ trapped = FALSE

\* ArraysMacro.h lines 49-51
OUT_OF_MEMORY == "OutOfMemoryError"

\* a==NULL, b==NULL: the runtime gave no access to buffer X of the request
AccessFailsNever(r, X) == FALSE
AccessFails(r, X) == X \in r.fails

\* the JNI calls an entry point makes around its body, and the exception it
\* throws instead of running the body
Aborted(calls) == [calls |-> calls, thrown |-> OUT_OF_MEMORY]
Completed(calls) == [calls |-> calls, thrown |-> "none"]

\* PAIRBUFFER_POSTFIX (lines 85-90): catch (...) of the try block that holds
\* the prefix, the body and the releases; control leaves the body for the
\* handler, past the releases
INTERNAL_ERROR == "InternalError"
Faulted(calls) == [calls |-> calls, thrown |-> INTERNAL_ERROR]

\* the body raises a fault (an instruction the processor does not have, an
\* address that is not mapped)
Faults(r) == r.faults

\* SINGLE_PREFIX ... SINGLE_POSTFIX (lines 54-65): fill
SingleEntry(r) ==
    IF AccessFails(r, "A") THEN Aborted(<<"GetA=NULL">>)
    ELSE IF Faults(r) THEN Faulted(<<"GetA">>)
    ELSE Completed(<<"GetA", "ReleaseA:0">>)

\* PAIR_PREFIX ... PAIR_POSTFIX (lines 67-77): goto _FA skips both releases,
\* goto _FB the release of B only
PairEntry(r) ==
    IF AccessFails(r, "A") THEN Aborted(<<"GetA=NULL">>)
    ELSE IF AccessFails(r, "B") THEN Aborted(<<"GetA", "GetB=NULL", "ReleaseA:0">>)
    ELSE IF Faults(r) THEN Faulted(<<"GetA", "GetB">>)
    ELSE Completed(<<"GetA", "GetB", "ReleaseB:JNI_ABORT", "ReleaseA:0">>)

\* PAIRBUFFER_PREFIX ... PAIRBUFFER_POSTFIX (lines 79-90): direct buffers
PairBufferEntry(r) ==
    IF AccessFails(r, "A") THEN Aborted(<<"AddressA=NULL">>)
    ELSE IF AccessFails(r, "B") THEN Aborted(<<"AddressA", "AddressB=NULL">>)
    ELSE IF Faults(r) THEN Faulted(<<"AddressA", "AddressB">>)
    ELSE Completed(<<"AddressA", "AddressB">>)

\* the prefix and postfix of the entry point of the request r
EntryPoint(r) ==
    IF r.op = "fill" THEN SingleEntry(r)
    ELSE IF r.buffers = "direct" THEN PairBufferEntry(r)
    ELSE PairEntry(r)

\* the body between the prefix and the postfix, entered unless the prefix
\* threw
Body(m, r, thrown) ==
    IF thrown # OUT_OF_MEMORY THEN Kernel(m, r) @@ [part |-> Partition(r)]
    ELSE [m |-> m, variant |-> "none", part |-> NoPart]

\* bytes of an array of min and max; the memory holds two of them
MinMaxArrayBytes == 288

\* the bytes of the array behind buffer X of the request r
Extent(r, X) ==
    LET base == IF X = "A" THEN r.a ELSE r.b
    IN  base .. base + MinMaxArrayBytes - 1

\* ReleasePrimitiveArrayCritical(X, x, 0) was called: mode 0 copies a
\* temporary copy back into the array, JNI_ABORT frees it without copying
Committed(X, calls) ==
    \E i \in 1 .. Len(calls) :
        calls[i] = (IF X = "A" THEN "ReleaseA:0" ELSE "ReleaseB:0")

\* the caller's memory after the call: the kernel worked on the memory k,
\* which for a buffer in r.copies is a temporary copy of the array that
\* reaches the array m only by a release that commits
Commit(m, k, r, calls) ==
    IF r.copies = {} \/ r.buffers = "direct" THEN k
    ELSE [i \in 1 .. Len(m) |->
             IF \E X \in r.copies \cap (IF r.op = "fill" THEN {"A"} ELSE {"A", "B"}) :
                    i \in Extent(r, X) /\ ~Committed(X, calls)
             THEN m[i] ELSE k[i]]

Finish(entry) ==
    /\ jni' = entry
    /\ \E result \in {Body(mem, req, entry.thrown)} :
           \* a fault stops the body before its first store or after any later one
           /\ \E k \in IF entry.thrown = INTERNAL_ERROR THEN {mem, result.m}
                         ELSE {result.m} :
                  mem' = Commit(mem, k, req, entry.calls)
           /\ variant' = result.variant
           /\ part' = result.part
    /\ phase' = "returned"
    /\ nOps' = nOps + 1
    /\ UNCHANGED <<pre, req>>
    /\ UNCHANGED probeVars

\* Java_net_algart_array_ArraysNative_fill__J_3BIIB and its siblings
Fill ==
    /\ phase = "called"
    /\ req.op = "fill"
    /\ Finish(SingleEntry(req))

\* Java_net_algart_array_ArraysNative_copyBytes
Copy ==
    /\ phase = "called"
    /\ req.op = "copy"
    /\ Finish(PairEntry(req))

\* Java_net_algart_array_ArraysNative_min__J_3BI_3BII and its siblings, those
\* on java.nio.ByteBuffer included
Min ==
    /\ phase = "called"
    /\ req.op = "min"
    /\ Finish(EntryPoint(req))

\* Java_net_algart_array_ArraysNative_max__J_3BI_3BII and its siblings, those
\* on java.nio.ByteBuffer included
Max ==
    /\ phase = "called"
    /\ req.op = "max"
    /\ Finish(EntryPoint(req))

---------------------------------------------------------------------------
(* Inputs *)

\* longest fill, in bytes
MaxFillBytes == 200
\* bytes of memory of the fill specification
FillMemSize == 288

\* the descriptors handed to the array calls: every combination of the flags
\* the kernels test, with the L2 field empty and full
KernelFlags == {CPU_CMOV, CPU_MMX, CPU_SSE, CPU_MMXEX}
L2Fields == {0, 1023}
CapsAll ==
    {UNION F \cup ShiftBits(c, CPU_L2SIZE_SHIFT, 10) :
        F \in SUBSET KernelFlags, c \in L2Fields}

\* the descriptors of the data-heavy specifications
CapsData ==
    {{}, CPU_SSE \cup CPU_MMX \cup CPU_MMXEX, CPU_MMX,
     CPU_SSE \cup CPU_MMX \cup CPU_MMXEX \cup CPU_CMOV
        \cup ShiftBits(1023, CPU_L2SIZE_SHIFT, 10)}

\* the filling value of each width: bytes that differ from one another
FillValue(w) == [k \in 1 .. w |-> 160 + k]

\* the byte every cell holds before a fill
Untouched == 238

FillLens(w) ==
    {n \in 0 .. MaxFillBytes \div w :
        \/ n * w <= 49
        \/ (n * w) % 16 \in {0, w, 16 - w}
        \/ n = MaxFillBytes \div w}

FillRequest(ty, c, a, o, n) ==
    [op |-> "fill", type |-> ty, CpuInfo |-> c, a |-> a, b |-> a, Aofs |-> o,
     Bofs |-> 0, Len |-> n, V |-> FillValue(SizeOf(ty)),
     buffers |-> "array", fails |-> {}, faults |-> FALSE, copies |-> {}]

InitFill ==
    /\ NoThreads
    /\ \E ty \in {"byte", "short", "int", "long"}, c \in CapsData, a \in 32 .. 63 :
           \E n \in FillLens(SizeOf(ty)) : req = FillRequest(ty, c, a, 0, n)
    /\ mem = [i \in 1 .. FillMemSize |-> Untouched]
    /\ pre = mem
    /\ variant = "none"
    /\ jni = NoJni
    /\ part = NoPart
    /\ phase = "called"
    /\ nOps = 0

NextFill == Fill
SpecFill == InitFill /\ [][NextFill]_vars

\* longest copy, in bytes
MaxCopyBytes == 200
\* bytes of memory of the copy specification
CopyMemSize == 592
\* the addresses of the two arrays
CopyArrays == {32, 320}
CopyOffsets == {0, 1, 5, 16, 33, 64}
CopyLens == {0, 1, 2, 4, 31, 32, 33, 63, 64, 65, 127, 128, 129, 160, MaxCopyBytes}

CopyRequest(c, a, ao, b, bo, n) ==
    [op |-> "copy", type |-> "byte", CpuInfo |-> c, a |-> a, b |-> b,
     Aofs |-> ao, Bofs |-> bo, Len |-> n, V |-> <<>>,
     buffers |-> "array", fails |-> {}, faults |-> FALSE, copies |-> {}]

InitCopy ==
    /\ NoThreads
    /\ \E c \in CapsData, a \in CopyArrays, b \in CopyArrays :
           \E ao \in CopyOffsets, bo \in CopyOffsets, n \in CopyLens :
               req = CopyRequest(c, a, ao, b, bo, n)
    /\ mem = [i \in 1 .. CopyMemSize |-> i % 251]
    /\ pre = mem
    /\ variant = "none"
    /\ jni = NoJni
    /\ part = NoPart
    /\ phase = "called"
    /\ nOps = 0

NextCopy == Copy
SpecCopy == InitCopy /\ [][NextCopy]_vars

\* the values the arrays of min and max hold: the extremes of the type, the
\* values around zero, and values whose low bytes order against their high ones
Values(type) ==
    CASE type = "byte" -> <<<<0>>, <<1>>, <<127>>, <<128>>, <<129>>, <<255>>>>
      [] type \in {"short", "ushort"} ->
            <<<<0, 0>>, <<255, 0>>, <<0, 1>>, <<255, 127>>, <<0, 128>>, <<255, 255>>>>
      [] type = "int" ->
            <<<<0, 0, 0, 0>>, <<255, 255, 0, 0>>, <<0, 0, 1, 0>>,
              <<255, 255, 255, 127>>, <<0, 0, 0, 128>>, <<255, 255, 255, 255>>>>
      [] type = "long" ->
            <<<<0, 0, 0, 0, 0, 0, 0, 0>>, <<255, 255, 255, 255, 0, 0, 0, 0>>,
              <<0, 0, 0, 0, 1, 0, 0, 0>>, <<255, 255, 255, 255, 255, 255, 255, 127>>,
              <<0, 0, 0, 0, 0, 0, 0, 128>>, <<255, 255, 255, 255, 255, 255, 255, 255>>>>
      [] type = "float" ->
            <<<<0, 0, 0, 0>>, <<0, 0, 0, 128>>, <<0, 0, 128, 63>>,
              <<0, 0, 128, 191>>, <<0, 0, 128, 127>>, <<0, 0, 192, 127>>>>
      [] type = "double" ->
            <<<<0, 0, 0, 0, 0, 0, 0, 0>>, <<0, 0, 0, 0, 0, 0, 0, 128>>,
              <<0, 0, 0, 0, 0, 0, 240, 63>>, <<0, 0, 0, 0, 0, 0, 240, 191>>,
              <<0, 0, 0, 0, 0, 0, 240, 255>>, <<0, 0, 0, 0, 0, 0, 248, 127>>>>

ArrayA == 32
ArrayB == ArrayA + 320
MinMaxMemSize == ArrayB + MinMaxArrayBytes

\* element e of the two arrays: over Len(Values)^2 consecutive elements every
\* pair of values meets; s and t move the pairs along the lanes
ElemA(vals, s, e) == vals[((e + s) % Len(vals)) + 1]
ElemB(vals, s, t, e) == vals[((((e + s) \div Len(vals)) + t) % Len(vals)) + 1]

\* n elements of w bytes laid out one after another
RECURSIVE Flatten(_, _)
Flatten(elems, n) ==
    IF n = 0 THEN <<>>
    ELSE IF n = 1 THEN elems[1]
    ELSE Flatten(SubSeq(elems, 1, n \div 2), n \div 2)
            \o Flatten(SubSeq(elems, n \div 2 + 1, n), n - n \div 2)

MinMaxMem(type, s, t) ==
    LET vals == Values(type)
        n == MinMaxArrayBytes \div SizeOf(type) + 1
        A == Flatten([e \in 1 .. n |-> ElemA(vals, s, e - 1)], n)
        B == Flatten([e \in 1 .. n |-> ElemB(vals, s, t, e - 1)], n)
    IN  Repeat(<<Untouched>>, ArrayA - 1) \o SubSeq(A, 1, MinMaxArrayBytes)
            \o Repeat(<<Untouched>>, ArrayB - ArrayA - MinMaxArrayBytes)
            \o SubSeq(B, 1, MinMaxArrayBytes) \o <<Untouched>>

\* the lengths of min and max, in elements of w bytes
MinMaxLens(w) ==
    {n \in 0 .. 256 \div w :
        n * w \in {0, w, 3 * w, 24, 32, 40, 64, 72, 96, 104, 128, 160, 200, 256}}

MinMaxRequest(op, ty, c, ao, bo, n) ==
    [op |-> op, type |-> ty, CpuInfo |-> c, a |-> ArrayA, b |-> ArrayB,
     Aofs |-> ao, Bofs |-> bo, Len |-> n, V |-> <<>>,
     buffers |-> "array", fails |-> {}, faults |-> FALSE, copies |-> {}]

InitMinMax ==
    /\ NoThreads
    /\ \E op \in {"min", "max"}, ty \in IntTypes, c \in CapsData :
           \E ao \in {0, 1, 3}, bo \in {0, 2}, n \in MinMaxLens(SizeOf(ty)),
              st \in {<<0, 0>>, <<1, 3>>} :
               /\ req = MinMaxRequest(op, ty, c, ao, bo, n)
               /\ mem = MinMaxMem(ty, st[1], st[2])
    /\ pre = mem
    /\ variant = "none"
    /\ jni = NoJni
    /\ part = NoPart
    /\ phase = "called"
    /\ nOps = 0

NextMinMax == Min \/ Max
SpecMinMax == InitMinMax /\ [][NextMinMax]_vars

\* every operation and element type under every descriptor, on short arrays
ArraysLens(w) == {0, 1, 32 \div w, 40 \div w, 200 \div w}
PlainMem == [i \in 1 .. MinMaxMemSize |-> (i * 37) % 256]

InitArrays ==
    /\ NoThreads
    /\ \E c \in CapsAll :
          \/ \E ty \in {"byte", "short", "int", "long", "float", "double"},
                a \in {ArrayA, ArrayA + 3} :
                 \E n \in ArraysLens(SizeOf(ty)) :
                     /\ req = FillRequest(ty, c, a, 0, n)
                     /\ mem = PlainMem
          \/ \E ab \in {<<ArrayA, 0, ArrayB, 0>>, <<ArrayA, 0, ArrayA, 1>>,
                        <<ArrayA, 1, ArrayA, 0>>}, n \in ArraysLens(1) :
                 /\ req = CopyRequest(c, ab[1], ab[2], ab[3], ab[4], n)
                 /\ mem = PlainMem
          \/ \E op \in {"min", "max"}, ty \in IntTypes \cup FloatTypes :
                 \E n \in ArraysLens(SizeOf(ty)) :
                     /\ req = MinMaxRequest(op, ty, c, 0, 0, n)
                     /\ mem = MinMaxMem(ty, 0, 0)
    /\ pre = mem
    /\ variant = "none"
    /\ jni = NoJni
    /\ part = NoPart
    /\ phase = "called"
    /\ nOps = 0

NextArrays == Fill \/ Copy \/ Min \/ Max
SpecArrays == InitArrays /\ [][NextArrays]_vars

\* the calls whose buffers the runtime may fail to give: every operation
\* and element type, arrays and direct buffers, each buffer failing or not
InitAccess ==
    /\ NoThreads
    /\ \E c \in CapsData, f \in SUBSET {"A", "B"} :
          \/ \E ty \in {"byte", "short", "int", "long", "float", "double"} :
                 \E n \in ArraysLens(SizeOf(ty)) :
                     /\ req = [FillRequest(ty, c, ArrayA, 0, n) EXCEPT !.fails = f]
                     /\ mem = PlainMem
          \/ \E n \in ArraysLens(1) :
                 /\ req = [CopyRequest(c, ArrayA, 0, ArrayB, 0, n) EXCEPT !.fails = f]
                 /\ mem = PlainMem
          \/ \E op \in {"min", "max"}, ty \in IntTypes, bf \in {"array", "direct"} :
                 \E n \in ArraysLens(SizeOf(ty)) :
                     /\ bf = "direct" => ty = "byte"
                     /\ req = [MinMaxRequest(op, ty, c, 0, 0, n)
                                  EXCEPT !.fails = f, !.buffers = bf]
                     /\ mem = MinMaxMem(ty, 0, 0)
    /\ pre = mem
    /\ variant = "none"
    /\ jni = NoJni
    /\ part = NoPart
    /\ phase = "called"
    /\ nOps = 0

SpecAccess == InitAccess /\ [][NextArrays]_vars

---------------------------------------------------------------------------
(* Calls under every behaviour of the runtime: access refused, arrays pinned
   in place or handed over as temporary copies, and a fault in the body *)

InitRelease ==
    /\ NoThreads
    /\ \E c \in CapsData, f \in SUBSET {"A", "B"}, x \in BOOLEAN,
          cp \in SUBSET {"A", "B"} :
          \/ \E ty \in {"byte", "int"}, n \in {0, 40, 200} :
                 /\ req = [FillRequest(ty, c, ArrayA, 0, n \div SizeOf(ty))
                               EXCEPT !.fails = f, !.faults = x, !.copies = cp]
                 /\ mem = PlainMem
          \/ \E n \in {0, 40, 200} :
                 /\ req = [CopyRequest(c, ArrayA, 0, ArrayB, 0, n)
                               EXCEPT !.fails = f, !.faults = x, !.copies = cp]
                 /\ mem = PlainMem
          \/ \E op \in {"min", "max"}, ty \in {"byte", "int"},
                bf \in {"array", "direct"}, n \in {0, 40, 200} :
                 /\ bf = "direct" => ty = "byte" /\ cp = {}
                 /\ req = [MinMaxRequest(op, ty, c, 0, 0, n \div SizeOf(ty))
                               EXCEPT !.fails = f, !.faults = x, !.copies = cp,
                                      !.buffers = bf]
                 /\ mem = MinMaxMem(ty, 0, 0)
    /\ pre = mem
    /\ variant = "none"
    /\ jni = NoJni
    /\ part = NoPart
    /\ phase = "called"
    /\ nOps = 0

SpecRelease == InitRelease /\ [][NextArrays]_vars

---------------------------------------------------------------------------
(* Calls of every operation inside arrays with bytes on both sides of the
   ranges *)

FrameLens(w) == {0, 1, 33 \div w, 40 \div w, 104 \div w, 200 \div w}

InitFrame ==
    /\ NoThreads
    /\ \E c \in CapsData :
          \/ \E ty \in {"byte", "short", "int", "long"}, o \in {0, 1, 3, 5} :
                 \E n \in FrameLens(SizeOf(ty)) :
                     /\ req = FillRequest(ty, c, ArrayA, o, n)
                     /\ mem = PlainMem
          \/ \E ab \in {<<ArrayA, ArrayB>>, <<ArrayB, ArrayA>>, <<ArrayA, ArrayA>>},
                ao \in {0, 1, 3, 16}, bo \in {0, 1, 3, 16}, n \in FrameLens(1) :
                 /\ req = CopyRequest(c, ab[1], ao, ab[2], bo, n)
                 /\ mem = PlainMem
          \/ \E op \in {"min", "max"}, ty \in IntTypes \cup FloatTypes,
                ao \in {0, 1, 3}, bo \in {0, 2} :
                 \E n \in FrameLens(SizeOf(ty)) :
                     /\ req = MinMaxRequest(op, ty, c, ao, bo, n)
                     /\ mem = MinMaxMem(ty, 0, 0)
    /\ pre = mem
    /\ variant = "none"
    /\ jni = NoJni
    /\ part = NoPart
    /\ phase = "called"
    /\ nOps = 0

SpecFrame == InitFrame /\ [][NextArrays]_vars

---------------------------------------------------------------------------
(* Fills and copies as long as the L2 cache: the choice of the body's store.
   Memory this long is not unfolded; the step is the part of the call before
   its loops, which computes the partition and picks the loop. *)

\* the largest L2 field of these requests, in units of 32 KB
MaxStoreL2Field == 4

\* the lengths in bytes: around every multiple of 16 KB up to the largest
\* effective L2 size
StoreLens ==
    {k * 16384 + d : k \in 1 .. 2 * MaxStoreL2Field,
                     d \in {-64, -1, 0, 1, 64, 128}}

\* SSE descriptors with every L2 field from 0 (not detected)
StoreCaps ==
    {CPU_SSE \cup CPU_MMX \cup ShiftBits(c, CPU_L2SIZE_SHIFT, 10) :
        c \in 0 .. MaxStoreL2Field}

InitStores ==
    /\ NoThreads
    /\ \E c \in StoreCaps, n \in StoreLens :
          \/ \E a \in {32, 33, 48} : req = FillRequest("byte", c, a, 0, n)
          \/ \E a \in {64, 65, 80}, b \in {64, 65, 80} :
                 req = CopyRequest(c, a, 0, b + 2 * 16384 * MaxStoreL2Field + 256, 0, n)
    /\ mem = <<>>
    /\ pre = mem
    /\ variant = "none"
    /\ jni = NoJni
    /\ part = NoPart
    /\ phase = "called"
    /\ nOps = 0

\* Arrays_fill.h lines 26-46 and 60-64, ArraysNative.cpp lines 94-102 and
\* 111-118: the branch, the partition and the loop of the body
Dispatch ==
    /\ phase = "called"
    /\ variant' = Variant(req)
    /\ part' = Partition(req)
    /\ phase' = "dispatched"
    /\ UNCHANGED <<mem, pre, req, jni, nOps>>
    /\ UNCHANGED probeVars

SpecStores == InitStores /\ [][Dispatch]_vars

\* the array calls of the mixed specification: each operation once, under
\* the descriptor 0 and under the descriptor with every flag
MixedRequests ==
    {FillRequest("int", c, ArrayA + 3, 0, 12) : c \in {{}, UNION KernelFlags}}
        \cup {CopyRequest(c, ArrayA, 0, ArrayA, 8, 40) : c \in {{}, UNION KernelFlags}}
        \cup {MinMaxRequest(op, "byte", c, 1, 0, 40) :
                 op \in {"min", "max"}, c \in {{}, UNION KernelFlags}}

\* the caller enters an array entry point between two probe calls
Request ==
    /\ phase # "called"
    /\ nOps < MaxOps
    /\ \A t \in threads : pc[t] = "idle"
    /\ req' \in MixedRequests
    /\ mem' = MinMaxMem("byte", 0, 0)
    /\ pre' = mem'
    /\ variant' = "none"
    /\ jni' = NoJni
    /\ part' = NoPart
    /\ phase' = "called"
    /\ UNCHANGED nOps
    /\ UNCHANGED probeVars

\* one thread that probes and makes array calls
Init == InitProbe({1}, HwSmall) /\ NoArrays
Next ==
    \/ \E t \in 1 .. NThreads :
        \/ Call(t) \/ Check(t) \/ SetFlag(t)
        \/ Q0(t) \/ Q1(t) \/ QX0(t) \/ QX1(t) \/ QX5(t) \/ QX6(t) \/ NoAmd(t) \/ Q2(t)
        \/ Catch(t)
        \/ P1(t) \/ P2(t) \/ P3(t) \/ P4(t) \/ P5(t) \/ P6(t) \/ Ret(t)
    \/ Request \/ Fill \/ Copy \/ Min \/ Max
Spec == Init /\ [][Next]_vars

\* the prober alone, one thread, over every modelled processor
InitHw == InitProbe({1}, HwAll) /\ NoArrays
NextHw ==
    \E t \in 1 .. NThreads :
        \/ Call(t) \/ Check(t) \/ SetFlag(t)
        \/ Q0(t) \/ Q1(t) \/ QX0(t) \/ QX1(t) \/ QX5(t) \/ QX6(t) \/ NoAmd(t) \/ Q2(t)
        \/ Catch(t)
        \/ P1(t) \/ P2(t) \/ P3(t) \/ P4(t) \/ P5(t) \/ P6(t) \/ Ret(t)
SpecHw == InitHw /\ [][NextHw]_vars

\* the prober raced by several threads
InitMT == InitProbe(1 .. NThreads, HwSmall) /\ NoArrays
SpecMT == InitMT /\ [][NextHw]_vars


---------------------------------------------------------------------------
(* Claims *)

\* the call of the operation op has returned
Returned(op) == phase = "returned" /\ req.op = op

\* the bytes of the range of n elements at index ofs of the array at base
Range(m, base, ofs, n, w) == Load(m, base + ofs * w, n * w)

\* C3: after copy returns, the destination range holds the values the source
\* range had before the call, under every capability descriptor and for
\* ranges of the same buffer that overlap either way.
C3_CopyOverlapSafe ==
    Returned("copy") =>
        Range(mem, req.b, req.Bofs, req.Len, 1) = Range(pre, req.a, req.Aofs, req.Len, 1)

\* C4: after an integer min (max) returns, every position i of the range
\* holds the smaller (larger) of the old a[aOfs+i] and b[bOfs+i], compared as
\* the entry point's type compares, under every capability descriptor.
C4_MinMaxElementwise ==
    (Returned("min") \/ Returned("max")) /\ req.type \in IntTypes =>
        \A i \in 0 .. req.Len - 1 :
            LET w == SizeOf(req.type)
                x == Range(pre, req.a, req.Aofs + i, 1, w)
                y == Range(pre, req.b, req.Bofs + i, 1, w)
                z == Range(mem, req.a, req.Aofs + i, 1, w)
            IN  IF req.op = "min"
                THEN z = (IF Greater(x, y, req.type) THEN y ELSE x)
                ELSE z = (IF Greater(y, x, req.type) THEN y ELSE x)

\* C1: under any two capability descriptors the operation leaves the memory
\* with identical contents: what the call left equals what the same call
\* leaves under the descriptor 0 and under the descriptor with every flag.
C1_DescriptorNeverChangesResult ==
    phase = "returned" =>
        \A c \in {{}, UNION KernelFlags} :
            Kernel(pre, [req EXCEPT !.CpuInfo = c]).m = mem

\* the capability order of (operation, element type), most capable first
CapabilityOrder(op, type) ==
    CASE op \in {"min", "max"} /\ type \in {"byte", "short", "ushort"} ->
             <<"MMXEX", "MMX", "scalar">>
      [] op \in {"min", "max"} /\ type = "int" -> <<"MMX", "scalar">>
      [] op \in {"min", "max"} /\ type = "long" -> <<"scalar">>
      [] op \in {"min", "max"} /\ type = "double" -> <<"CMOV", "scalar">>
      [] OTHER -> <<"SSE", "scalar">>

\* the flags a variant requires
Required(v) ==
    CASE v = "MMXEX" -> CPU_MMXEX
      [] v = "MMX" -> CPU_MMX
      [] v = "SSE" -> CPU_SSE
      [] v = "CMOV" -> CPU_CMOV
      [] v = "scalar" -> {}

\* the first variant of the order that Eligible admits
FirstEligible(order, Eligible(_)) ==
    order[CHOOSE i \in 1 .. Len(order) :
              Eligible(order[i]) /\ \A j \in 1 .. i - 1 : ~Eligible(order[j])]

\* C5 as stated: the variant that ran requires only flags set in the
\* descriptor and no earlier variant of the capability order is eligible, so
\* it is the first variant whose flags are set; under descriptor 0 it is the
\* scalar one.
C5_MostCapableEligibleVariantRuns ==
    phase = "returned" =>
        /\ variant = FirstEligible(CapabilityOrder(req.op, req.type),
                                   LAMBDA v : Required(v) \subseteq req.CpuInfo)
        /\ req.CpuInfo = {} => variant = "scalar"

\* C5 amended: as C5, with the SSE variant of fill eligible only when the
\* range is longer than 32 bytes.
C5_MostCapableEligibleVariantRunsOver32Bytes ==
    phase = "returned" =>
        /\ variant = FirstEligible(CapabilityOrder(req.op, req.type),
               LAMBDA v : /\ Required(v) \subseteq req.CpuInfo
                          /\ req.op = "fill" /\ v = "SSE" =>
                                 req.Len * SizeOf(req.type) > 32)
        /\ req.CpuInfo = {} => variant = "scalar"

C5_ShortFillWithSSE ==
    /\ Returned("fill")
    /\ Has(req.CpuInfo, CPU_SSE)
    /\ req.Len * SizeOf(req.type) = 32
    /\ variant = "scalar"

\* the requests that differ from req in length, offsets and addresses only
Alike(SameClass(_)) ==
    {[req EXCEPT !.Len = n, !.Aofs = ao, !.Bofs = bo, !.a = a] :
        n \in {k \in 0 .. 64 : SameClass(k)}, ao \in 0 .. 2, bo \in 0 .. 2,
        a \in {ArrayA, ArrayA + 3}}

\* C6 as stated: a request with the same operation, element type and
\* descriptor runs the same variant whatever its length, offsets and
\* addresses.
C6_VariantIgnoresLength ==
    phase = "returned" =>
        \A r \in Alike(LAMBDA k : TRUE) : Variant(r) = variant

\* C6 amended: as C6 for copy, min and max; for fill, among the requests on
\* the same side of the 32-byte threshold.
C6_VariantIgnoresLengthBesideFillThreshold ==
    phase = "returned" =>
        \A r \in Alike(LAMBDA k :
                req.op = "fill" =>
                    (k * SizeOf(req.type) > 32) = (req.Len * SizeOf(req.type) > 32)) :
            Variant(r) = variant

C6_LongFillWithSSE ==
    /\ Returned("fill")
    /\ req.type = "int"
    /\ req.Len * SizeOf(req.type) = 40
    /\ variant = "SSE"

\* a fill on a start address off the 32-byte boundary, run by the SSE branch
\* on elements wider than a byte
C2_UnalignedVectorFill ==
    /\ Returned("fill")
    /\ variant = "SSE"
    /\ req.type = "short"
    /\ req.a % 32 = 6
    /\ req.Len = 17

\* C2: after fill returns, every element of the range equals the filling
\* value, for every descriptor, element width, start address modulo 32 and
\* length.
C2_FillPostcondition ==
    Returned("fill") =>
        \A i \in 0 .. req.Len - 1 :
            Range(mem, req.a, req.Aofs + i, 1, SizeOf(req.type)) = req.V

\* a signed byte min run by the extended-MMX variant, with its masked head
\* and its 64-byte loop, over pairs of a negative and a positive value
C4_BiasedByteMin ==
    /\ Returned("min")
    /\ req.type = "byte"
    /\ variant = "MMXEX"
    /\ req.Len = 200
    /\ \E i \in 0 .. req.Len - 1 :
           /\ Range(pre, req.a, req.Aofs + i, 1, 1) = <<128>>
           /\ Range(pre, req.b, req.Bofs + i, 1, 1) = <<127>>
           /\ Range(mem, req.a, req.Aofs + i, 1, 1) = <<128>>

\* C7: once a probing step has trapped and its handler has returned, the
\* cached descriptor is 0 whenever no call is inside the probing sequence,
\* and a call entered after the handler returned finds 0 to return.
C7_TrapCachesZero ==
    trapped =>
        /\ (\A t \in threads : pc[t] \in {"idle", "check"}) => cpuInfoLast = {}
        /\ \A t \in threads : pc[t] = "check" /\ loc[t].late => cpuInfoLast = {}

\* every value a probe call has returned equals the first one returned
C8_RetsAgree ==
    \A t \in threads : \A i \in 1 .. Len(rets[t]) : rets[t][i] = rets[t][1]

\* a step of an array entry point
C8_ArrayStep == nOps' # nOps \/ phase' # phase

\* C8: in a single-threaded process every probe call returns the value the
\* first probe call returned, the hardware query sequence is entered at most
\* once, and no step of an array operation changes the cached descriptor.
C8_SingleThreadMemoization ==
    /\ [](C8_RetsAgree /\ nQueries <= 1)
    /\ [][C8_ArrayStep => UNCHANGED <<cpuInfoCalculated, cpuInfoLast>>]_vars

\* the bounded number of probe calls made, the last ones after array calls
C8_CallsAroundArrayOps ==
    /\ Len(rets[1]) = MaxCalls
    /\ nOps = MaxOps
    /\ rets[1][1] # {}

\* C9: under every interleaving of the first probe calls of several threads,
\* every call returns the same descriptor, none a partly stored one.
C9_ConcurrentCallsAgree ==
    \A t \in threads, u \in threads :
        \A i \in 1 .. Len(rets[t]), j \in 1 .. Len(rets[u]) :
            rets[t][i] = rets[u][j]

\* the prerequisite rules on one descriptor
C10_Rules(d) ==
    /\ Has(d, CPU_CMOV) => Has(d, CPU_FPU)
    /\ Has(d, CPU_SSE) => Has(d, CPU_MMX)
    /\ Has(d, CPU_SSE2) => Has(d, CPU_SSE)
    /\ Has(d, CPU_3DNOWEX) => Has(d, CPU_3DNOW)

\* C10: every descriptor the probe returns satisfies the prerequisite rules:
\* CMOV implies FPU, SSE implies MMX, SSE2 implies SSE, and 3DNow-extended
\* implies 3DNow.
C10_PrerequisiteRules ==
    \A t \in threads : \A i \in 1 .. Len(rets[t]) : C10_Rules(rets[t][i])

\* a descriptor returned on a processor whose raw bits break every rule
C10_RawBitsBreakRules ==
    /\ Has(hw.edx1, CPU_CMOV) /\ ~Has(hw.edx1, CPU_FPU)
    /\ Has(hw.edx1, CPU_SSE2) /\ ~Has(hw.edx1, CPU_MMX)
    /\ Has(hw.amdEdx, CPU_3DNOWEX_L) /\ ~Has(hw.amdEdx, CPU_3DNOW_L)
    /\ hw.maxArg = 2
    /\ hw.extEax = Reg32(1, 6)
    /\ Len(rets[1]) >= 1
    /\ Has(rets[1][1], CPU_AMD)

\* a copy whose second buffer the runtime refused after giving the first
C11_SecondBufferRefused ==
    /\ Returned("copy")
    /\ req.fails = {"B"}
    /\ req.Len = 40
    /\ jni.calls = <<"GetA", "GetB=NULL", "ReleaseA:0">>

\* C11: if access to a caller buffer fails (the first or the second, array or
\* direct buffer), the call reports OutOfMemoryError, no kernel variant runs
\* and the memory is as it was before the call.
C11_AccessFailureWritesNothing ==
    phase = "returned" /\ (req.op = "fill" => "A" \in req.fails)
                       /\ req.fails # {} =>
        /\ jni.thrown = OUT_OF_MEMORY
        /\ variant = "none"
        /\ mem = pre

\* the effective L2 size in bytes: the L2 field times 32 KB, 64 KB at least
C12_EffectiveL2(CpuInfo) ==
    LET field == FieldOf(CpuInfo, CPU_L2SIZE_SHIFT, 10)
    IN  IF field * 32 < 64 THEN 64 * 1024 ELSE field * 32 * 1024

\* a vectorized fill or copy that has chosen the loop of its body
C12_Dispatched ==
    phase = "dispatched" /\ variant = "SSE" /\ req.op \in {"fill", "copy"}

\* C12 as stated: the body uses non-temporal stores exactly when the size of
\* the operation exceeds half of the effective L2 size, in fill and in copy.
C12_NonTemporalOverHalfL2 ==
    C12_Dispatched =>
        (part.store = "movntps" <=> 2 * req.Len > C12_EffectiveL2(req.CpuInfo))

\* C12: copy uses non-temporal stores exactly when source and destination of
\* the body are both 16-byte aligned and the 64-byte passes of the body cover
\* at least half of the effective L2 size (cached movaps below that, movups
\* when unaligned); fill uses them exactly when its 128-byte passes cover at
\* least the whole effective L2 size, and cached movaps stores otherwise.
C12_NonTemporalThresholds ==
    C12_Dispatched =>
        LET E == C12_EffectiveL2(req.CpuInfo)
        IN  IF req.op = "fill"
            THEN /\ part.store = "movntps" <=> (part.len \div 8) * 128 >= E
                 /\ part.store \in {"movntps", "movaps"}
            ELSE /\ part.store = "movntps" <=>
                        /\ (req.a + req.Aofs - req.b - req.Bofs) % 16 = 0
                        /\ 2 * part.len * 64 >= E
                 /\ part.store = "movups" <=>
                        (req.a + req.Aofs - req.b - req.Bofs) % 16 # 0

\* a fill longer than half of the effective L2 size and shorter than the
\* whole of it, with cached stores
C12_FillOverHalfL2Cached ==
    /\ C12_Dispatched
    /\ req.op = "fill"
    /\ FieldOf(req.CpuInfo, CPU_L2SIZE_SHIFT, 10) = 0
    /\ req.Len = 3 * 16384 + 64
    /\ part.store = "movaps"

\* the addresses of the destination range and of the source range of r
C13_Destination(r) ==
    LET w == SizeOf(r.type)
    IN  IF r.op = "copy" THEN r.b + r.Bofs .. r.b + r.Bofs + r.Len - 1
        ELSE r.a + r.Aofs * w .. r.a + (r.Aofs + r.Len) * w - 1

C13_Source(r) ==
    LET w == SizeOf(r.type)
    IN  IF r.op = "copy" THEN r.a + r.Aofs .. r.a + r.Aofs + r.Len - 1
        ELSE IF r.op = "fill" THEN {}
        ELSE r.b + r.Bofs * w .. r.b + (r.Bofs + r.Len) * w - 1

\* the memory m with every byte outside the two ranges of r changed
C13_ChangedOutside(m, r) ==
    [i \in 1 .. Len(m) |->
        IF i \in C13_Destination(r) \cup C13_Source(r) THEN m[i]
        ELSE (m[i] + 129) % 256]

\* a vectorized min of shorts that starts off the 32-byte boundary and ends
\* off the unit, with a head, a body and a tail
C13_UnalignedVectorMin ==
    /\ Returned("min")
    /\ req.type = "short"
    /\ variant = "MMXEX"
    /\ req.Aofs = 3
    /\ req.Len = 100
    /\ part.lenStart > 0 /\ part.len > 0 /\ part.lenEnd > 0
    /\ mem # pre

\* C13: a call writes only bytes of its destination range (every other byte,
\* the second operand of min/max and a source of copy outside the destination
\* included, is as before the call), and reads only bytes of its two ranges
\* (the bytes it writes are the same whatever the other bytes hold).
C13_WritesAndReadsInsideRanges ==
    phase = "returned" =>
        /\ \A i \in 1 .. Len(mem) : i \notin C13_Destination(req) => mem[i] = pre[i]
        /\ LET other == Kernel(C13_ChangedOutside(pre, req), req).m
           IN  \A i \in C13_Destination(req) : other[i] = mem[i]

\* the call of req with the two operands exchanged
C14_Swapped(r) ==
    [r EXCEPT !.a = r.b, !.b = r.a, !.Aofs = r.Bofs, !.Bofs = r.Aofs]

\* at every position, the result of the call is the result of the call with
\* the operands exchanged
C14_Commutes ==
    LET w == SizeOf(req.type)
        other == Kernel(pre, C14_Swapped(req)).m
    IN  \A k \in 0 .. req.Len * w - 1 :
            mem[req.a + req.Aofs * w + k] = other[req.b + req.Bofs * w + k]

\* a second application with the same second operand changes nothing
C14_Idempotent == Kernel(mem, req).m = mem

\* C14: for every pair of arrays and every descriptor, min(a,b) equals
\* min(b,a) at each position, and applying min (resp. max) a second time with
\* the same b leaves a as the first application left it.
C14_MinMaxCommutativeIdempotent ==
    phase = "returned" /\ req.op \in {"min", "max"} =>
        C14_Commutes /\ C14_Idempotent

\* what a range processed element by element holds: the filling value, the
\* source of a copy from another array, the selected operand of min/max
C15_Processed ==
    /\ C2_FillPostcondition
    /\ req.a # req.b => C3_CopyOverlapSafe
    /\ C4_MinMaxElementwise
    /\ req.op \in {"min", "max"} /\ req.type \in FloatTypes =>
           \A i \in 0 .. req.Len - 1 :
               LET w == SizeOf(req.type)
                   x == Range(pre, req.a, req.Aofs + i, 1, w)
                   y == Range(pre, req.b, req.Bofs + i, 1, w)
                   z == Range(mem, req.a, req.Aofs + i, 1, w)
                   lo == IF req.op = "min" THEN y ELSE x
                   hi == IF req.op = "min" THEN x ELSE y
               IN  /\ z \in {x, y}
                   /\ FloatGreater(hi, lo) => z = y
                   /\ FloatGreater(lo, hi) => z = x

\* a vector min of one short that starts 26 bytes before the 32-byte
\* boundary: shorter than the head, no body, the element left to the tail
C15_ShorterThanHead ==
    /\ Returned("min")
    /\ req.type = "short"
    /\ variant = "MMXEX"
    /\ req.Aofs = 3 /\ req.Len = 1
    /\ part.loop = "LOOP_PREFIX_ALIGNED"
    /\ part.lenStart = 0 /\ part.len = 0 /\ part.lenEnd = 1

\* C15: the head, body and tail counts of every partition are non-negative
\* and head + body*unit + tail is the length, and the call has processed every
\* element of the range, also when the body count is 0 and when the length is
\* smaller than the head.
C15_PartitionCoversRange ==
    phase = "returned" /\ part.loop # "none" =>
        /\ part.lenStart >= 0 /\ part.len >= 0 /\ part.lenEnd >= 0
        /\ (part.lenStart + part.len * part.unit + part.lenEnd) * part.size
               = req.Len * SizeOf(req.type)
        /\ C15_Processed

\* the first address of the destination range and of the source range
C16_DestinationStart ==
    IF req.op = "copy" THEN req.b + req.Bofs
    ELSE req.a + req.Aofs * SizeOf(req.type)

C16_SourceStart ==
    IF req.op = "copy" THEN req.a + req.Aofs
    ELSE req.b + req.Bofs * SizeOf(req.type)

\* a vectorized copy from one odd address to another: a head of 31 bytes,
\* then the aligned loop
C16_AlignedCopyAfterHead ==
    /\ Returned("copy")
    /\ variant = "SSE"
    /\ req.Aofs = 1 /\ req.Bofs = 1 /\ req.Len = 200
    /\ part.lenStart = 31 /\ part.len = 1
    /\ part.store = "movaps"

\* C16: when the vectorized body is non-empty and the start address is a
\* multiple of the element size, the body begins at a 32-byte boundary of the
\* destination; the 16-byte stores of fill, and the aligned and non-temporal
\* loops of copy and of float min/max, run only on 16-byte-aligned addresses
\* of the destination and of the source.
C16_BodyAligned ==
    phase = "returned" /\ variant \notin {"none", "scalar"} /\ part.len > 0 =>
        /\ C16_DestinationStart % SizeOf(req.type) = 0 => part.bodyAt % 32 = 0
        /\ req.op = "fill" => part.bodyAt % 16 = 0
        /\ part.store \in {"movaps", "movntps"} /\ req.op # "fill" =>
               /\ part.bodyAt % 16 = 0
               /\ (C16_SourceStart + part.bodyAt - C16_DestinationStart) % 16 = 0

\* a vectorized variant has partitioned the range of the last call
C17_Partitioned ==
    phase = "returned" /\ variant \notin {"none", "scalar"} /\ part.loop # "none"

\* what follows the head, counted as the partition counts
C17_AfterHead == (req.Len * SizeOf(req.type)) \div part.size - part.lenStart

\* C17 as stated: the tail is the remainder of (length - head) by the unit,
\* shorter than one unit, and the body takes every complete unit.
C17_TailIsRemainder ==
    C17_Partitioned =>
        /\ part.lenEnd = C17_AfterHead % part.unit
        /\ part.lenEnd < part.unit
        /\ part.len = C17_AfterHead \div part.unit

\* a vectorized copy of 200 bytes from an aligned start: two passes of 64
\* bytes and a tail of 8 + 64 bytes
C17_TailWithWholeUnit ==
    /\ Returned("copy")
    /\ variant = "SSE"
    /\ req.Aofs = 0 /\ req.Bofs = 0 /\ req.Len = 200
    /\ part.lenStart = 0 /\ part.len = 2 /\ part.lenEnd = 72

\* C17: under LOOP_PREFIX_ALIGNED, when at least one complete unit follows
\* the head, the tail is the remainder of (length - head) by the unit plus one
\* whole unit and the body takes every complete unit but the last one; when
\* no complete unit follows the head, and in the SSE fill (unit 16 bytes), the
\* tail is the remainder and the body takes every complete unit.  The tail is
\* always shorter than two units.
C17_TailHoldsLastUnit ==
    C17_Partitioned =>
        /\ part.lenEnd < 2 * part.unit
        /\ IF part.loop = "LOOP_PREFIX_ALIGNED" /\ C17_AfterHead >= part.unit
           THEN /\ part.lenEnd = (C17_AfterHead % part.unit) + part.unit
                /\ part.len = C17_AfterHead \div part.unit - 1
           ELSE /\ part.lenEnd = C17_AfterHead % part.unit
                /\ part.len = C17_AfterHead \div part.unit

\* the length of the last call, counted as the partition counts
C18_Length == (req.Len * SizeOf(req.type)) \div part.size

\* C18 as stated: the head is 0 whenever the start is on the 32-byte boundary
\* or the length is shorter than one body unit, and non-zero only for an
\* unaligned start with a length of at least one body unit.
C18_HeadZeroBelowUnit ==
    C17_Partitioned =>
        /\ C16_DestinationStart % 32 = 0 \/ C18_Length < part.unit =>
               part.lenStart = 0
        /\ part.lenStart # 0 =>
               C16_DestinationStart % 32 # 0 /\ C18_Length >= part.unit

\* a vectorized copy of 40 bytes, less than the unit of 64, to an address 16
\* bytes after the boundary: a head of 16 bytes and no body
C18_HeadOfShortCopy ==
    /\ Returned("copy")
    /\ variant = "SSE"
    /\ req.Aofs = 0 /\ req.Bofs = 16 /\ req.Len = 40
    /\ part.lenStart = 16 /\ part.len = 0 /\ part.lenEnd = 24

\* C18: under LOOP_PREFIX_ALIGNED the head is 0 whenever the start is on the
\* 32-byte boundary, or is not a multiple of the element size, or the length
\* is shorter than the distance to the boundary; otherwise it is the count of
\* elements up to the boundary, also for a length shorter than one body unit.
\* In the SSE fill the head is the count of bytes up to the boundary, 0 only
\* on the boundary.
C18_HeadReachesBoundary ==
    C17_Partitioned =>
        LET disp == C16_DestinationStart % 32
            toBoundary == (32 - disp) \div part.size
            aligned == part.loop = "LOOP_PREFIX_ALIGNED"
        IN  part.lenStart =
                IF \/ disp = 0
                   \/ aligned /\ disp % part.size # 0
                   \/ aligned /\ C18_Length < toBoundary
                THEN 0 ELSE toBoundary

\* C19: if cpuid(0) does not trap and reports the maximum argument 0, every
\* descriptor the probe returns is exactly 0, whatever the memory held before.
C19_NoLeafReturnsZero ==
    hw.maxArg = 0 /\ hw.trapAt = "none" =>
        \A t \in threads : \A i \in 1 .. Len(rets[t]) : rets[t][i] = {}

\* the L2 kilobytes the descriptor bytes k .. 15 of regs denote when a byte
\* with high nibble 4 counts exactly for a processor family of at most 6
RECURSIVE C20_L2KB(_, _, _)
C20_L2KB(regs, k, family) ==
    IF k >= 16 THEN 0
    ELSE LET v == regs[k + 1]
             vl == v % 16
             kb == IF v \div 16 = 8 /\ vl # 0 THEN 128 * Pow2(vl - 1)
                   ELSE IF v \div 16 = 4 /\ vl # 0 /\ family <= 6 THEN 128 * Pow2(vl - 1)
                   ELSE IF v \div 16 = 7 /\ vl >= 8 THEN 64 * Pow2(vl - 8)
                   ELSE 0
         IN  kb + C20_L2KB(regs, k + 1, family)

\* C20: when the cache-descriptor leaf is parsed, a descriptor byte with high
\* nibble 4 adds to the L2 total if and only if the processor family is at
\* most 6; with the base family code 15 it adds nothing.
C20_FamilyGatesL3Bytes ==
    hw.trapAt = "none" /\ hw.maxArg >= 2 /\ hw.extEax.top = 0 =>
        \A t \in threads : \A i \in 1 .. Len(rets[t]) :
            FieldOf(rets[t][i], CPU_L2SIZE_SHIFT, 10) =
                (C20_L2KB(ClearNegative(hw.regs2), 1, (hw.eax1 \div 256) % 16)
                    \div 32) % 1024

\* C21: for float and double min/max, a vectorized variant (SSE for float,
\* fucomi and fcmov for double) leaves at every position the element the
\* scalar variant leaves, for every pair of operands, NaNs and zeros of
\* opposite sign included.
C21_VectorFloatAsScalar ==
    phase = "returned" /\ req.op \in {"min", "max"} /\ req.type \in FloatTypes
                       /\ variant \in {"SSE", "CMOV"} =>
        mem = Kernel(pre, [req EXCEPT !.CpuInfo = {}]).m

\* the calls that pin buffer X and the calls that release it, by position
C22_Pins(X) ==
    {i \in 1 .. Len(jni.calls) :
        jni.calls[i] = (IF X = "A" THEN "GetA" ELSE "GetB")}

C22_Releases(X) ==
    {i \in 1 .. Len(jni.calls) :
        jni.calls[i] \in (IF X = "A" THEN {"ReleaseA:0", "ReleaseA:JNI_ABORT"}
                          ELSE {"ReleaseB:0", "ReleaseB:JNI_ABORT"})}

\* C22: when the call has returned, normally, after a refused buffer or after
\* a fault in the body, every buffer it pinned has been released exactly once
\* and no buffer has been released that was not pinned.
C22_EveryPinReleasedOnce ==
    phase = "returned" =>
        \A X \in {"A", "B"} :
            /\ Cardinality(C22_Pins(X)) <= 1
            /\ Cardinality(C22_Releases(X)) = Cardinality(C22_Pins(X))

\* C23: after copy, min or max on arrays, the buffer the body writes has
\* been released in the committing mode and the other one in the discarding
\* mode, and the destination range of the caller's array holds the result,
\* whether the runtime pinned the arrays or handed out temporary copies.
C23_WrittenBufferCommitted ==
    phase = "returned" /\ req.op \in {"copy", "min", "max"}
                       /\ req.buffers = "array" /\ jni.thrown = "none" =>
        LET written == IF req.op = "copy" THEN "B" ELSE "A"
            result == Kernel(pre, req).m
        IN  /\ Committed(written, jni.calls)
            /\ \A X \in {"A", "B"} \ {written} : ~Committed(X, jni.calls)
            /\ \A i \in C13_Destination(req) : mem[i] = result[i]

============================================================================
